---- MODULE Spec2Model ----
(***************************************************************************)
(* Review fetch / save pipeline of google-reviews-iframe                   *)
(* (src/src/lib/shared.js and the platform scripts built on it).           *)
(*                                                                         *)
(* Representation of JavaScript values:                                    *)
(*   - null / undefined strings are the marker Null; "" is the empty       *)
(*     string; both are falsy (Truthy).                                    *)
(*   - an author name is a sequence of one-character strings, so that the  *)
(*     slug computation of formatFilename can be carried out character by  *)
(*     character.                                                          *)
(*   - a Date is [valid, ms]: ms since the epoch, or an Invalid Date.      *)
(*   - a timestamp string of the configuration is [kind, t]: absent,       *)
(*     empty, ISO with zone designator (t in ms), the zone-less            *)
(*     "YYYY-MM-DD HH:MM:SS" form written by updateLastFetched (t in s),   *)
(*     or an unparseable string.                                           *)
(***************************************************************************)
EXTENDS Integers, Sequences, FiniteSets, TLC

VARIABLES
    now,            \* Date.now(), ms since the epoch
    tz,             \* local time zone of the process: its standard offset,
                    \* ms east of UTC
    dst,            \* the local time zone observes daylight saving time
    latest,         \* getLatestReviewDate call: [dirExists, called, value]
    norm,           \* normalizer call: [platform, raw, called, threw, review]
    acq,            \* one image acquisition followed request by request:
                    \* the hops of its redirect chain (see AcqHop)
    sfBusiness,     \* shouldFetch call: the business argument
    sfSource,       \* shouldFetch call: the source argument
    sfResult,       \* shouldFetch call: [called, value]
    reviewFiles,    \* data/<slug>/: for each directory, file name -> content
    imageFiles,     \* images/reviewers/: the image files present
    imageRequests,  \* image downloads that went to the network
    imageWrites,    \* image files written (sharp(...).toFile calls completed)
    thumbAttempts,  \* calls of downloadAndProcessImage
    saveLog,        \* saveReview calls made: arguments, outcome, effects
    apiLog,         \* fetchApiArray calls made from outside a run: what the
                    \* transports did, attempts, result
    imageLog,       \* downloadAndProcessImage calls made from outside
                    \* saveReview: arguments, result, effects
    configDisk,     \* config.json: the list of business records
    pc,             \* where the current run stands
    token,          \* process.env[envTokenName] is set
    slugArg,        \* process.argv[2]
    platform,       \* source of the script that runs ("google", ...)
    config,         \* the list loadConfig() returned, mutated in place
    selected,       \* businesses: indices into config, after both filters
    idx,            \* position of the for loop in selected
    queue,          \* filtered reviews saveReviewsWithCount has yet to save
    exitCode,       \* -1 while the process runs, then its exit code
    runLog          \* what the current run did (see RunLogInit)

envVars == <<now, tz, dst>>
callVars == <<sfBusiness, sfSource, sfResult, imageLog, apiLog, latest,
             norm, acq>>
diskVars == <<reviewFiles, imageFiles, imageRequests, imageWrites, thumbAttempts>>
runVars == <<configDisk, pc, token, slugArg, platform, config,
             selected, idx, queue, exitCode, runLog>>
vars == <<now, tz, dst, sfBusiness, sfSource, sfResult, reviewFiles, imageFiles,
          imageRequests, imageWrites, thumbAttempts, saveLog, imageLog, apiLog, latest,
          norm, acq,
          configDisk,
          pc, token, slugArg, platform, config, selected, idx, queue,
          exitCode, runLog>>

(***************************************************************************)
(* Bounds of the model.                                                    *)
(***************************************************************************)
MaxDays == 2            \* timestamps and clock values span days 0..MaxDays
MaxFreqDays == 2        \* fetch_frequency_days ranges over 0..MaxFreqDays

(***************************************************************************)
(* JavaScript values.                                                      *)
(***************************************************************************)
Null == "<null>"
Truthy(s) == s # Null /\ s # ""

NoSource == "<none>"
Platforms == {"google", "facebook", "trustpilot"}

MsPerSecond == 1000
MsPerDay == 1000 * 60 * 60 * 24
MsPerHour == 1000 * 60 * 60

\* Number, possibly NaN
Num(n) == [nan |-> FALSE, n |-> n]
NaN == [nan |-> TRUE, n |-> 0]

\* Math.floor(a / b) for b > 0; NaN propagates
MathFloorDiv(a, b) == IF a.nan THEN NaN ELSE Num(a.n \div b)

\* a >= b where a may be NaN: every comparison with NaN is false
GreaterEq(a, b) == ~a.nan /\ a.n >= b

(***************************************************************************)
(* Timestamp strings of the configuration file.                            *)
(***************************************************************************)
Undefined == [kind |-> "undefined", t |-> 0]
EmptyTs == [kind |-> "empty", t |-> 0]
GarbageTs == [kind |-> "garbage", t |-> 0]
IsoTs(ms) == [kind |-> "iso", t |-> ms]
LocalTs(sec) == [kind |-> "local", t |-> sec]

TsTruthy(v) == v.kind \notin {"undefined", "empty"}

\* new Date(str).getTime(): a zone-less date-time string is read as local time
DateParse(v, zone) ==
    CASE v.kind = "iso" -> Num(v.t)
      [] v.kind = "local" -> Num(v.t * MsPerSecond - zone)
      [] OTHER -> NaN

\* new Date().toISOString().replace("T", " ").substring(0, 19)
FormatTimestamp(ms) == LocalTs(ms \div MsPerSecond)

(***************************************************************************)
(* shouldFetch / updateLastFetched                                         *)
(***************************************************************************)
timestampField(source) ==
    CASE source = "google" -> "last_fetched_google"
      [] source = "facebook" -> "last_fetched_facebook"
      [] source = "trustpilot" -> "last_fetched_trustpilot"
      [] OTHER -> "last_fetched"

lastFetchedStr(business, source) ==
    IF TsTruthy(business[timestampField(source)])
    THEN business[timestampField(source)]
    ELSE business.last_fetched

daysSinceFetch(business, source, clock, zone) ==
    MathFloorDiv(
        IF DateParse(lastFetchedStr(business, source), zone).nan
        THEN NaN
        ELSE Num(clock - DateParse(lastFetchedStr(business, source), zone).n),
        MsPerDay)

shouldFetchGt(business, source, clock, zone) ==
    IF ~TsTruthy(lastFetchedStr(business, source))
    THEN TRUE
    ELSE ~daysSinceFetch(business, source, clock, zone).nan
         /\ daysSinceFetch(business, source, clock, zone).n
                > business.fetch_frequency_days

shouldFetchGenericFirst(business, source, clock, zone) ==
    LET str == IF TsTruthy(business.last_fetched)
               THEN business.last_fetched
               ELSE business[timestampField(source)]
    IN  IF ~TsTruthy(str)
        THEN TRUE
        ELSE LET parsed == DateParse(str, zone)
             IN  ~parsed.nan
                 /\ (clock - parsed.n) \div MsPerDay
                        >= business.fetch_frequency_days

shouldFetch(business, source, clock, zone) ==
    IF ~TsTruthy(lastFetchedStr(business, source))
    THEN TRUE
    ELSE GreaterEq(daysSinceFetch(business, source, clock, zone),
                   business.fetch_frequency_days)

updateLastFetchedGeneric(business, source, clock) ==
    [business EXCEPT ![timestampField(source)] = FormatTimestamp(clock),
                     !.last_fetched = FormatTimestamp(clock)]

updateLastFetched(business, source, clock) ==
    [business EXCEPT ![timestampField(source)] = FormatTimestamp(clock)]

(***************************************************************************)
(* formatFilename                                                          *)
(***************************************************************************)
UpperCase == <<"A", "B", "C", "D", "E", "F", "G", "H", "I", "J", "K", "L", "M",
               "N", "O", "P", "Q", "R", "S", "T", "U", "V", "W", "X", "Y", "Z">>
LowerCase == <<"a", "b", "c", "d", "e", "f", "g", "h", "i", "j", "k", "l", "m",
               "n", "o", "p", "q", "r", "s", "t", "u", "v", "w", "x", "y", "z">>
Digits == {"0", "1", "2", "3", "4", "5", "6", "7", "8", "9"}
Whitespace == {" ", "\t", "\n"}

Range(seq) == {seq[i] : i \in 1..Len(seq)}

\* String.prototype.toLowerCase, one character
toLowerCase(c) ==
    IF c \in Range(UpperCase)
    THEN LowerCase[CHOOSE i \in 1..Len(UpperCase) : UpperCase[i] = c]
    ELSE c

\* .replace(/[^a-z0-9\s]/g, "")
RECURSIVE removeUnsafe(_)
removeUnsafe(s) ==
    IF s = <<>> THEN <<>>
    ELSE IF Head(s) \in Range(LowerCase) \cup Digits \cup Whitespace
         THEN <<Head(s)>> \o removeUnsafe(Tail(s))
         ELSE removeUnsafe(Tail(s))

RECURSIVE skipWhitespace(_)
skipWhitespace(s) ==
    IF s # <<>> /\ Head(s) \in Whitespace THEN skipWhitespace(Tail(s)) ELSE s

\* .replace(/\s+/g, "-")
RECURSIVE dashWhitespace(_)
dashWhitespace(s) ==
    IF s = <<>> THEN <<>>
    ELSE IF Head(s) \in Whitespace
         THEN <<"-">> \o dashWhitespace(skipWhitespace(s))
         ELSE <<Head(s)>> \o dashWhitespace(Tail(s))

\* .substring(0, n)
substring0(s, n) == SubSeq(s, 1, IF Len(s) < n THEN Len(s) ELSE n)

FilenameNameMax == 30
Anonymous == <<"a", "n", "o", "n", "y", "m", "o", "u", "s">>

\* (name || "anonymous").toLowerCase()
lowerName(name) ==
    [i \in 1..Len(IF name = <<>> THEN Anonymous ELSE name) |->
        toLowerCase((IF name = <<>> THEN Anonymous ELSE name)[i])]

safeNameUntruncated(name) == dashWhitespace(removeUnsafe(lowerName(name)))

safeName(name) ==
    substring0(dashWhitespace(removeUnsafe(lowerName(name))), FilenameNameMax)

\* Date values
ValidDate(ms) == [valid |-> TRUE, ms |-> ms]
InvalidDate == [valid |-> FALSE, ms |-> 0]

TwoDigits == <<"01", "02", "03", "04", "05", "06", "07", "08", "09", "10",
               "11", "12", "13", "14", "15", "16", "17", "18", "19", "20",
               "21", "22", "23", "24", "25", "26", "27", "28", "29", "30", "31">>

\* date.toISOString().split("T")[0], for the days of January 1970
toISODate(ms) == "1970-01-" \o TwoDigits[(ms \div MsPerDay) + 1]

safeDate(date, clock) ==
    IF date.valid THEN toISODate(date.ms) ELSE toISODate(clock)

formatFilename(name, date, clock) ==
    safeName(name) \o <<"-", safeDate(date, clock), ".json">>

(***************************************************************************)
(* Thumbnail acquisition, as seen by saveReview: one call of               *)
(* downloadAndProcessImage from its start to the settling of its promise.  *)
(***************************************************************************)
HttpUrls == {"http://img/1"}
HttpsUrls == {"https://img/2"}
\* URLs new URL() accepts whose protocol is neither http: nor https:
OtherUrls == {"ftp://img/3"}

\* new URL(url): the protocol, or Null when the constructor throws
parseUrlSafe(url) ==
    CASE url \in HttpUrls -> "http:"
      [] url \in HttpsUrls -> "https:"
      [] url \in OtherUrls -> "ftp:"
      [] OTHER -> Null

\* urlObj.protocol === "https:" ? https : http
getProtocolModule(protocol) == IF protocol = "https:" THEN "https" ELSE "http"

\* <module>.get(url, ...) throws ERR_INVALID_PROTOCOL, synchronously, when the
\* protocol of url is not the protocol of the module
getThrows(module, protocol) ==
    \/ module = "https" /\ protocol # "https:"
    \/ module = "http" /\ protocol # "http:"

\* validateImageInputs testing the url alone
validateImageInputsUrlOnly(url, userId) == Truthy(url)

validateImageInputs(url, userId) == Truthy(url) /\ Truthy(userId)

getImagePaths(userId) ==
    [filepath1x |-> userId \o ".webp", filepath2x |-> userId \o "@2x.webp"]

imageFilesExist(paths, images) ==
    paths.filepath1x \in images /\ paths.filepath2x \in images

checkImagePreconditionsParseFirst(url, userId, images) ==
    IF ~validateImageInputs(url, userId) THEN [skip |-> TRUE, result |-> FALSE]
    ELSE IF parseUrlSafe(url) = Null THEN [skip |-> TRUE, result |-> FALSE]
    ELSE IF imageFilesExist(getImagePaths(userId), images)
         THEN [skip |-> TRUE, result |-> TRUE]
    ELSE [skip |-> FALSE, result |-> FALSE]

checkImagePreconditions(url, userId, images) ==
    IF ~validateImageInputs(url, userId) THEN [skip |-> TRUE, result |-> FALSE]
    ELSE IF imageFilesExist(getImagePaths(userId), images)
         THEN [skip |-> TRUE, result |-> TRUE]
    ELSE IF parseUrlSafe(url) = Null THEN [skip |-> TRUE, result |-> FALSE]
    ELSE [skip |-> FALSE, result |-> FALSE]

\* what the network and the image decoder make of a request that is issued:
\*   "ok"      a 200 response whose body decodes; both sizes are written
\*   "partial" the 48x48 file is written, the 96x96 write fails
\*   "fail"    no usable response (status, transport error, timeout, decode)
ImageOutcomes == {"ok", "partial", "fail"}

\* the call goes to the network: the preconditions do not settle it and
\* get() accepts the url
requestIssued(url, userId, images) ==
    /\ ~checkImagePreconditions(url, userId, images).skip
    /\ ~getThrows(getProtocolModule(parseUrlSafe(url)), parseUrlSafe(url))

\* [result, threw, images, requests, writes] of one call; threw: the promise
\* is rejected (an exception inside the executor) instead of resolved
downloadAndProcessImage(url, userId, images, outcome) ==
    LET pre == checkImagePreconditions(url, userId, images)
        paths == getImagePaths(userId)
        protocol == parseUrlSafe(url)
    IN  IF pre.skip
        THEN [result |-> pre.result, threw |-> FALSE, images |-> images,
              requests |-> 0, writes |-> 0]
        ELSE IF getThrows(getProtocolModule(protocol), protocol)
        THEN [result |-> FALSE, threw |-> TRUE, images |-> images,
              requests |-> 0, writes |-> 0]
        ELSE CASE outcome = "ok" ->
                    [result |-> TRUE, threw |-> FALSE,
                     images |-> images \cup {paths.filepath1x, paths.filepath2x},
                     requests |-> 1, writes |-> 2]
               [] outcome = "partial" ->
                    [result |-> FALSE, threw |-> FALSE,
                     images |-> images \cup {paths.filepath1x},
                     requests |-> 1, writes |-> 1]
               [] OTHER ->
                    [result |-> FALSE, threw |-> FALSE, images |-> images,
                     requests |-> 1, writes |-> 0]

\* tryDownloadThumbnail not seeing the image files that already exist
tryDownloadThumbnailNoReuse(review, images, outcome) ==
    IF ~Truthy(review.userId) \/ ~Truthy(review.photoUrl)
    THEN [path |-> Null, threw |-> FALSE, images |-> images, requests |-> 0,
          writes |-> 0, attempts |-> 0]
    ELSE LET d == downloadAndProcessImage(review.photoUrl, review.userId,
                                          {}, outcome)
         IN  [path |-> IF d.result
                       THEN "/images/reviewers/" \o review.userId \o ".webp"
                       ELSE Null,
              threw |-> d.threw,
              images |-> images \cup d.images, requests |-> d.requests,
              writes |-> d.writes, attempts |-> 1]

\* [path, threw, images, requests, writes, attempts]
tryDownloadThumbnail(review, images, outcome) ==
    IF ~Truthy(review.userId) \/ ~Truthy(review.photoUrl)
    THEN [path |-> Null, threw |-> FALSE, images |-> images, requests |-> 0,
          writes |-> 0, attempts |-> 0]
    ELSE LET d == downloadAndProcessImage(review.photoUrl, review.userId,
                                          images, outcome)
         IN  [path |-> IF d.result
                       THEN "/images/reviewers/" \o review.userId \o ".webp"
                       ELSE Null,
              threw |-> d.threw,
              images |-> d.images, requests |-> d.requests,
              writes |-> d.writes, attempts |-> 1]

(***************************************************************************)
(* saveReview                                                              *)
(***************************************************************************)
\* buildReviewData naming the thumbnail of every review that has a userId
buildReviewDataThumbnailAlways(review, thumbnailPath, source) ==
    [author |-> review.author,
     authorUrl |-> review.authorUrl,
     rating |-> review.rating,
     content |-> review.content,
     date |-> IsoTs(review.date.ms),
     userId |-> IF Truthy(review.userId) THEN review.userId ELSE Null,
     thumbnail |-> IF Truthy(review.userId)
                   THEN "/images/reviewers/" \o review.userId \o ".webp"
                   ELSE Null,
     source |-> source]

\* review.date.toISOString() of a valid date
buildReviewData(review, thumbnailPath, source) ==
    [author |-> review.author,
     authorUrl |-> review.authorUrl,
     rating |-> review.rating,
     content |-> review.content,
     date |-> IsoTs(review.date.ms),
     userId |-> IF Truthy(review.userId) THEN review.userId ELSE Null,
     thumbnail |-> thumbnailPath,
     source |-> source]

\* saveReview without the test of the file: an existing file is rewritten
saveReviewOverwrite(review, files, images, source, clock, outcome) ==
    LET filename == formatFilename(review.author, review.date, clock)
        thumb == tryDownloadThumbnail(review, images, outcome)
    IN  IF thumb.threw \/ ~review.date.valid
        THEN [outcome |-> "threw", files |-> files, images |-> thumb.images,
              requests |-> thumb.requests, writes |-> thumb.writes,
              attempts |-> thumb.attempts]
        ELSE [outcome |-> "saved",
              files |-> (filename :> buildReviewData(review, thumb.path, source))
                            @@ files,
              images |-> thumb.images, requests |-> thumb.requests,
              writes |-> thumb.writes, attempts |-> thumb.attempts]

\* One call of saveReview on the directory content `files`:
\* [outcome, files, images, requests, writes, attempts]; outcome is
\* "saved" (returned true), "exists" (returned false) or "threw".
saveReviewThumbnailFirst(review, files, images, source, clock, outcome) ==
    LET filename == formatFilename(review.author, review.date, clock)
        thumb == tryDownloadThumbnail(review, images, outcome)
    IN  IF filename \in DOMAIN files
        THEN [outcome |-> "exists", files |-> files, images |-> thumb.images,
              requests |-> thumb.requests, writes |-> thumb.writes,
              attempts |-> thumb.attempts]
        ELSE IF thumb.threw \/ ~review.date.valid
        THEN [outcome |-> "threw", files |-> files, images |-> thumb.images,
              requests |-> thumb.requests, writes |-> thumb.writes,
              attempts |-> thumb.attempts]
        ELSE [outcome |-> "saved",
              files |-> files @@
                  (filename :> buildReviewData(review, thumb.path, source)),
              images |-> thumb.images, requests |-> thumb.requests,
              writes |-> thumb.writes, attempts |-> thumb.attempts]

saveReview(review, files, images, source, clock, outcome) ==
    LET filename == formatFilename(review.author, review.date, clock)
        thumb == tryDownloadThumbnail(review, images, outcome)
    IN  IF filename \in DOMAIN files
        THEN [outcome |-> "exists", files |-> files, images |-> images,
              requests |-> 0, writes |-> 0, attempts |-> 0]
        ELSE IF thumb.threw \/ ~review.date.valid
        THEN [outcome |-> "threw", files |-> files, images |-> thumb.images,
              requests |-> thumb.requests, writes |-> thumb.writes,
              attempts |-> thumb.attempts]
        ELSE [outcome |-> "saved",
              files |-> files @@
                  (filename :> buildReviewData(review, thumb.path, source)),
              images |-> thumb.images, requests |-> thumb.requests,
              writes |-> thumb.writes, attempts |-> thumb.attempts]

(***************************************************************************)
(* getLatestReviewDate                                                     *)
(***************************************************************************)
\* Daylight saving time of a zone that observes it, within the days of the
\* model: the clocks go forward one hour at 01:00 UTC of day 1 and back at
\* 01:00 UTC of day 3.
DstStart == MsPerDay + MsPerHour
DstEnd == MsPerDay + MsPerDay + MsPerDay + MsPerHour

\* offset of local time from UTC at the instant ms
localOffset(ms, zone, saving) ==
    IF saving /\ ms >= DstStart /\ ms < DstEnd THEN zone + MsPerHour ELSE zone

\* the instant of a local wall-clock time; a time the clocks skip or repeat
\* is read with the offset in force before the transition
utcOfLocal(wall, zone, saving) ==
    LET std == wall - zone
        sav == wall - (zone + MsPerHour)
        stdOk == localOffset(std, zone, saving) = zone
        savOk == localOffset(sav, zone, saving) = zone + MsPerHour
    IN  CASE stdOk /\ ~savOk -> std
          [] savOk /\ ~stdOk -> sav
          [] stdOk /\ savOk -> sav
          [] OTHER -> std

\* result.setDate(result.getDate() + days): the same local time of day,
\* days calendar days later
addDays(days, ms, zone, saving) ==
    utcOfLocal(ms + localOffset(ms, zone, saving) + days * MsPerDay,
               zone, saving)

\* date.toISOString().split("T")[0]
formatDateYMD(ms) == toISODate(ms)

\* the content of a file of a review directory: text JSON.parse rejects
\* ("garbage"), or JSON text of null, of a number, or of an object with its
\* date member (Undefined when it has none, NullTs when it is null)
NullTs == [kind |-> "null", t |-> 0]

FileContent(json, date) == [json |-> json, date |-> date]

endsWithJson(f) == Len(f) > 0 /\ f[Len(f)] = ".json"

\* readJsonSafe followed by compact: the file gives a truthy value
readableValue(file) == file.json \notin {"garbage", "null"}

\* parseDateSafe(review.date): ValidDate, or InvalidDate for its null
parseDateSafe(file) ==
    CASE file.json # "object" -> InvalidDate
      [] file.date.kind = "iso" -> ValidDate(file.date.t)
      [] file.date.kind = "null" -> ValidDate(0)
      [] OTHER -> InvalidDate

\* reviewDates, as a set of instants
reviewDates(files) ==
    {parseDateSafe(files[f]).ms :
        f \in {g \in DOMAIN files :
                  /\ endsWithJson(g)
                  /\ readableValue(files[g])
                  /\ parseDateSafe(files[g]).valid}}

\* the date string, or Null
getLatestReviewDate(dirExists, files, zone, saving) ==
    IF ~dirExists THEN Null
    ELSE IF reviewDates(files) = {} THEN Null
    ELSE LET max == CHOOSE m \in reviewDates(files) :
                        \A d \in reviewDates(files) : d <= m
         IN  formatDateYMD(addDays(1, max, zone, saving))

LatestIdle == [dirExists |-> TRUE, called |-> FALSE, value |-> Null]

(***************************************************************************)
(* The API client: makeApiRequest, handleApiRequestError, fetchApiArray.   *)
(***************************************************************************)
\* an Error: its code (Null when it has none) and the words of its message
ApiError(code, message) == [code |-> code, message |-> message]

NoError == ApiError(Null, <<>>)

\* err.code === "EAI_AGAIN" || err.message?.includes("EAI_AGAIN")
isDnsError(err) ==
    err.code = "EAI_AGAIN" \/ "EAI_AGAIN" \in Range(err.message)

\* a JSON value: its top-level kind and, for an array, its items
JsonValue(kind, items) == [kind |-> kind, items |-> items]

\* a response text: valid JSON text of a value, or text JSON.parse rejects
Body(valid, value) == [valid |-> valid, value |-> value]

NoBody == Body(FALSE, JsonValue("none", <<>>))

\* what a transport did: [rejected, error, body]
\* makeApiRequestHttps rejects on a transport error, on the timeout and on a
\* status >= 400, and resolves with the response text otherwise
Resolved(body) == [rejected |-> FALSE, error |-> NoError, body |-> body]
Rejected(error) == [rejected |-> TRUE, error |-> error, body |-> NoBody]

\* makeApiRequestCurl: the output of curl, or Error("Curl request failed: ...")
CurlFailed == ApiError(Null, <<"Curl", "request", "failed:">>)

makeApiRequestCurl(curl) ==
    IF curl.rejected
    THEN [threw |-> TRUE, error |-> CurlFailed, body |-> NoBody]
    ELSE [threw |-> FALSE, error |-> NoError, body |-> curl.body]

\* [threw, error, body, fallback]: fallback counts the calls of curl
handleApiRequestErrorAlways(error, curl) ==
    makeApiRequestCurl(curl) @@ [fallback |-> 1]

handleApiRequestError(error, curl) ==
    IF isDnsError(error)
    THEN makeApiRequestCurl(curl) @@ [fallback |-> 1]
    ELSE [threw |-> TRUE, error |-> error, body |-> NoBody, fallback |-> 0]

\* [threw, error, body, primary, fallback]
makeApiRequest(https, curl) ==
    IF https.rejected
    THEN handleApiRequestError(https.error, curl) @@ [primary |-> 1]
    ELSE [threw |-> FALSE, error |-> NoError, body |-> https.body,
          primary |-> 1, fallback |-> 0]

InvalidFormat == ApiError(Null, <<"Invalid", "API", "response", "format">>)
JsonSyntaxError == ApiError(Null, <<"JSON", "Parse", "error">>)

validateArrayResponseLax(value) ==
    [threw |-> FALSE, error |-> NoError, results |-> value.items]

\* [threw, error, results]
validateArrayResponse(value) ==
    IF value.kind # "array"
    THEN [threw |-> TRUE, error |-> InvalidFormat, results |-> <<>>]
    ELSE [threw |-> FALSE, error |-> NoError, results |-> value.items]

\* [threw, error, results, parsed, primary, fallback]; parsed is the kind of
\* the value JSON.parse returned, "none" when it was not reached or threw
fetchApiArray(https, curl) ==
    LET response == makeApiRequest(https, curl)
        attempts == [primary |-> response.primary, fallback |-> response.fallback]
    IN  IF response.threw
        THEN [threw |-> TRUE, error |-> response.error, results |-> <<>>,
              parsed |-> "none"] @@ attempts
        ELSE IF ~response.body.valid
        THEN [threw |-> TRUE, error |-> JsonSyntaxError, results |-> <<>>,
              parsed |-> "none"] @@ attempts
        ELSE validateArrayResponse(response.body.value)
                 @@ [parsed |-> response.body.value.kind] @@ attempts

(***************************************************************************)
(* The platform normalizers: normalizeGoogleReview, normalizeFacebookReview *)
(* and normalizeTrustpilotReview, from a raw record of the scraper to a    *)
(* review.                                                                 *)
(***************************************************************************)
\* A value of a raw (JSON) record: t is its type, s the characters of a
\* string, n the value of a number, or 1 and 0 for true and false.  A piece
\* of text holding none of the characters the code looks at is written as
\* one element of s.
JsUndefined == [t |-> "undefined", s |-> <<>>, n |-> 0]
JsNull == [t |-> "null", s |-> <<>>, n |-> 0]
JsString(s) == [t |-> "string", s |-> s, n |-> 0]
JsNumber(n) == [t |-> "number", s |-> <<>>, n |-> n]
JsNaN == [t |-> "nan", s |-> <<>>, n |-> 0]
JsBoolean(b) == [t |-> "boolean", s |-> <<>>, n |-> IF b THEN 1 ELSE 0]
JsObject == [t |-> "object", s |-> <<>>, n |-> 0]

\* the truthiness of a value
ToBoolean(v) ==
    CASE v.t \in {"undefined", "null", "nan"} -> FALSE
      [] v.t = "string" -> v.s # <<>>
      [] v.t \in {"number", "boolean"} -> v.n # 0
      [] OTHER -> TRUE

\* a || b
OrElse(a, b) == IF ToBoolean(a) THEN a ELSE b

\* the String.prototype methods (match, trim, toLowerCase, substring) exist
\* on strings only: calling one on another truthy value is a TypeError
hasStringMethods(v) == v.t = "string"

DigitChars == <<"0", "1", "2", "3", "4", "5", "6", "7", "8", "9">>

RECURSIVE decimal(_)
decimal(n) ==
    IF n < 10 THEN <<DigitChars[n + 1]>>
    ELSE decimal(n \div 10) \o <<DigitChars[(n % 10) + 1]>>

\* String(value), as a template literal, a regular expression test and
\* parseInt apply it
stringOf(v) ==
    CASE v.t = "string" -> v.s
      [] v.t = "number" -> IF v.n < 0 THEN <<"-">> \o decimal(0 - v.n)
                           ELSE decimal(v.n)
      [] v.t = "nan" -> <<"N", "a", "N">>
      [] v.t = "boolean" -> IF v.n = 1 THEN <<"t", "r", "u", "e">>
                            ELSE <<"f", "a", "l", "s", "e">>
      [] v.t = "null" -> <<"n", "u", "l", "l">>
      [] v.t = "undefined" -> <<"u", "n", "d", "e", "f", "i", "n", "e", "d">>
      [] OTHER -> <<"[object Object]">>

\* the longest prefix of digits
RECURSIVE digitPrefix(_)
digitPrefix(s) ==
    IF s # <<>> /\ Head(s) \in Digits
    THEN <<Head(s)>> \o digitPrefix(Tail(s))
    ELSE <<>>

RECURSIVE decimalValue(_, _)
decimalValue(s, acc) ==
    IF s = <<>> THEN acc
    ELSE decimalValue(Tail(s),
                      acc * 10
                      + (CHOOSE d \in 0..9 : DigitChars[d + 1] = Head(s)))

\* Number.parseInt(value, 10)
parseInt(v) ==
    LET str == skipWhitespace(stringOf(v))
        negative == str # <<>> /\ Head(str) = "-"
        unsigned == IF str # <<>> /\ Head(str) \in {"-", "+"}
                    THEN Tail(str) ELSE str
        digits == digitPrefix(unsigned)
    IN  IF digits = <<>> THEN JsNaN
        ELSE IF negative THEN JsNumber(0 - decimalValue(digits, 0))
        ELSE JsNumber(decimalValue(digits, 0))

\* /^\d+$/.test(value)
allDigits(v) ==
    LET str == stringOf(v)
    IN  str # <<>> /\ \A i \in 1..Len(str) : str[i] \in Digits

\* String.prototype.trim
RECURSIVE trimEnd(_)
trimEnd(s) ==
    IF s # <<>> /\ s[Len(s)] \in Whitespace
    THEN trimEnd(SubSeq(s, 1, Len(s) - 1))
    ELSE s

trim(s) == trimEnd(skipWhitespace(s))

\* String.prototype.toLowerCase
lowerString(s) == [i \in 1..Len(s) |-> toLowerCase(s[i])]

\* String.prototype.startsWith
startsWith(s, prefix) ==
    Len(prefix) <= Len(s) /\ SubSeq(s, 1, Len(prefix)) = prefix

\* the date strings of a raw record that new Date() can read
DateString(ms) == <<toISODate(ms), "T00:00:00.000Z">>
DateStringInstants == {0, MsPerDay, MsPerDay + MsPerDay}

\* new Date(value)
newDate(v) ==
    CASE v.t = "string" ->
            IF \E ms \in DateStringInstants : v.s = DateString(ms)
            THEN ValidDate(CHOOSE ms \in DateStringInstants :
                               v.s = DateString(ms))
            ELSE InvalidDate
      [] v.t \in {"number", "boolean"} -> ValidDate(v.n)
      [] v.t = "null" -> ValidDate(0)
      [] OTHER -> InvalidDate

\* value ? new Date(value) : new Date()
dateOrNow(v, clock) == IF ToBoolean(v) THEN newDate(v) ELSE ValidDate(clock)

\* review.name || "Anonymous"
AnonymousName == <<"A", "n", "o", "n", "y", "m", "o", "u", "s">>

\* the outcome of a call: it threw, or it returned value
Threw == [threw |-> TRUE, value |-> JsUndefined]
Returned(value) == [threw |-> FALSE, value |-> value]

Contrib == <<"/", "c", "o", "n", "t", "r", "i", "b", "/">>

\* /\/contrib\/(\d+)/ matches at position i of s
contribAt(s, i) ==
    /\ i + Len(Contrib) <= Len(s)
    /\ SubSeq(s, i, i + Len(Contrib) - 1) = Contrib
    /\ s[i + Len(Contrib)] \in Digits

extractGoogleUserId(authorUrl) ==
    IF ~ToBoolean(authorUrl) THEN Returned(JsNull)
    ELSE IF ~hasStringMethods(authorUrl) THEN Threw
    ELSE IF \E i \in 1..Len(authorUrl.s) : contribAt(authorUrl.s, i)
         THEN LET first == CHOOSE i \in 1..Len(authorUrl.s) :
                               /\ contribAt(authorUrl.s, i)
                               /\ \A j \in 1..(i - 1) :
                                      ~contribAt(authorUrl.s, j)
              IN  Returned(JsString(digitPrefix(
                      SubSeq(authorUrl.s, first + Len(Contrib),
                             Len(authorUrl.s)))))
         ELSE Returned(JsNull)

normalizeGoogleReview(review, clock) ==
    LET authorUrl == OrElse(OrElse(review.reviewerUrl, review.authorUrl),
                            JsString(<<>>))
        userId == extractGoogleUserId(authorUrl)
    IN  IF userId.threw THEN Threw
        ELSE Returned(
            [content |-> OrElse(OrElse(review.text, review.reviewText),
                                JsString(<<>>)),
             date |-> dateOrNow(review.publishedAtDate, clock),
             rating |-> OrElse(OrElse(review.stars, review.rating),
                               JsNumber(0)),
             author |-> OrElse(OrElse(review.name, review.authorName),
                               JsString(AnonymousName)),
             authorUrl |-> authorUrl,
             photoUrl |-> OrElse(OrElse(OrElse(review.reviewerPhotoUrl,
                                               review.userPhotoUrl),
                                        review.reviewerAvatar),
                                 JsString(<<>>)),
             userId |-> userId.value])

\* review.user: an object with the properties the code reads, or another
\* value, which has none of them
UserObject(name, id, profileUrl, profilePic) ==
    [t |-> "object", s |-> <<>>, n |-> 0, name |-> name, id |-> id,
     profileUrl |-> profileUrl, profilePic |-> profilePic]
UserValue(v) ==
    [t |-> v.t, s |-> v.s, n |-> v.n, name |-> JsUndefined,
     id |-> JsUndefined, profileUrl |-> JsUndefined,
     profilePic |-> JsUndefined]

\* review.user || {}
userOrEmpty(user) ==
    IF ToBoolean(user) THEN user ELSE UserValue(JsObject)

FacebookIdMax == 20

extractFacebookUserId(user) ==
    IF ~ToBoolean(user) THEN Returned(JsNull)
    ELSE IF ToBoolean(user.id) /\ allDigits(user.id)
         THEN Returned(JsString(<<"f", "b", "-">> \o stringOf(user.id)))
    ELSE IF ToBoolean(user.id)
         THEN IF hasStringMethods(user.id)
              THEN Returned(JsString(
                       <<"f", "b", "-">> \o substring0(user.id.s, FacebookIdMax)))
              ELSE Threw
    ELSE Returned(JsNull)

normalizeFacebookReview(review, clock) ==
    LET user == userOrEmpty(review.user)
        userId == extractFacebookUserId(user)
    IN  IF userId.threw THEN Threw
        ELSE Returned(
            [content |-> OrElse(review.text, JsString(<<>>)),
             date |-> dateOrNow(review.date, clock),
             rating |-> IF ToBoolean(review.isRecommended)
                        THEN JsNumber(5) ELSE JsNumber(1),
             author |-> OrElse(user.name, JsString(AnonymousName)),
             authorUrl |-> OrElse(OrElse(review.url, user.profileUrl),
                                  JsString(<<>>)),
             photoUrl |-> OrElse(user.profilePic, JsString(<<>>)),
             userId |-> userId.value,
             isRecommended |-> review.isRecommended])

extractTrustpilotUserId(review) ==
    IF ToBoolean(review.reviewId)
    THEN JsString(<<"t", "p", "-">> \o stringOf(review.reviewId))
    ELSE JsNull

\* the characters the source file holds where an ellipsis was meant: the
\* three characters U+00E2 U+20AC U+00A6
SourceEllipsis == <<"U+00E2", "U+20AC", "U+00A6">>
EllipsisEndings ==
    {<<".", ".", ".">>, SourceEllipsis, SourceEllipsis \o <<".">>}

\* title.match(/^(.+?)(\.{3}|<SourceEllipsis>\.?)$/): the lengths of the
\* first group in the matches of the pattern ("." matches no line break)
ellipsisPrefixes(title) ==
    {k \in 1..Len(title) :
        /\ SubSeq(title, k + 1, Len(title)) \in EllipsisEndings
        /\ \A i \in 1..k : title[i] # "\n"}

shouldStripTitle(title, body) ==
    LET lowerBody == lowerString(body)
        lowerTitle == lowerString(title)
    IN  \/ startsWith(lowerBody, lowerTitle)
        \/ /\ ellipsisPrefixes(title) # {}
           /\ LET k == CHOOSE k \in ellipsisPrefixes(title) :
                           \A j \in ellipsisPrefixes(title) : k <= j
                  titlePrefix == lowerString(trim(SubSeq(title, 1, k)))
              IN  startsWith(lowerBody, titlePrefix)

SentencePunctuation == {".", "!", "?"}

buildTrustpilotContent(reviewTitle, reviewText) ==
    LET body == OrElse(reviewText, JsString(<<>>))
    IN  IF ~ToBoolean(reviewTitle) THEN Returned(body)
        ELSE IF ~hasStringMethods(reviewTitle) THEN Threw
        ELSE LET title == trim(reviewTitle.s)
             IN  IF ~hasStringMethods(body) THEN Threw
                 ELSE IF shouldStripTitle(title, body.s) THEN Returned(body)
                 ELSE LET punctuated ==
                              IF title[Len(title)] \in SentencePunctuation
                              THEN title ELSE title \o <<".">>
                      IN  IF ToBoolean(body)
                          THEN Returned(JsString(
                                   punctuated \o <<"\n", "\n">> \o body.s))
                          ELSE Returned(JsString(punctuated))

normalizeTrustpilotReview(review, clock) ==
    LET content == buildTrustpilotContent(review.reviewTitle,
                                          review.reviewText)
    IN  IF content.threw THEN Threw
        ELSE Returned(
            [content |-> content.value,
             date |-> dateOrNow(review.date, clock),
             rating |-> OrElse(parseInt(review.ratingValue), JsNumber(0)),
             author |-> OrElse(review.name, JsString(AnonymousName)),
             authorUrl |-> OrElse(review.url, JsString(<<>>)),
             photoUrl |-> OrElse(review.avatar, JsString(<<>>)),
             userId |-> extractTrustpilotUserId(review),
             reviewTitle |-> OrElse(review.reviewTitle, JsNull)])

\* no normalizer call
\* no acquisition under way
AcqIdle == <<>>

NormIdle ==
    [platform |-> "none", raw |-> JsUndefined, called |-> FALSE,
     threw |-> FALSE, review |-> JsUndefined]

(***************************************************************************)
(* The platform run: createReviewFetcher, processBusinesses,               *)
(* createBusinessProcessor, saveReviewsWithCount.                          *)
(***************************************************************************)
hasContentGe5(review) ==
    Truthy(review.content) /\ Len(review.content) >= 5

\* review.content && review.content.length > 5, as a truth value
hasContent(review) ==
    Truthy(review.content) /\ Len(review.content) > 5

filterByMinRatingGt(minRating, reviews) ==
    LET Test(review) == review.rating > minRating
    IN  SelectSeq(reviews, Test)

filterByMinRating(minRating, reviews) ==
    LET Test(review) == review.rating >= minRating
    IN  SelectSeq(reviews, Test)

\* pipe(extractReviews, map(normalize), filter(hasContent))(results), on
\* results that are already in normalized form
contentFiltered(results) == SelectSeq(results, hasContent)

platformField(source) ==
    CASE source = "google" -> "google_business_id"
      [] source = "facebook" -> "facebook_page_url"
      [] OTHER -> "trustpilot_url"

\* filterByPlatform(platformField) and filterBySlug(targetSlug), one entry
selectedBusiness(b, source, slug) ==
    /\ Truthy(b[platformField(source)])
    /\ (Truthy(slug) => b.slug = slug)

\* pipe(filterByPlatform(platformField), filterBySlug(process.argv[2]))(config):
\* the entries kept, as positions in config (the filters return the same
\* objects, so a mutation of a kept business is a mutation of config)
RECURSIVE selectBusinesses(_, _, _, _)
selectBusinesses(list, i, source, slug) ==
    IF i > Len(list) THEN <<>>
    ELSE IF selectedBusiness(list[i], source, slug)
         THEN <<i>> \o selectBusinesses(list, i + 1, source, slug)
         ELSE selectBusinesses(list, i + 1, source, slug)

\* per run: the value shouldProcess gave for each business, the order in
\* which the processor was invoked, the kind of the parsed API response, the
\* API results and the reviews handed
\* to saveReview for the business in hand, the clock at updateLastFetched,
\* the number of saveConfig calls, and the files and configuration on disk
\* when the run started
RunLogInit(disk, files) ==
    [status |-> [i \in 1..Len(disk) |-> "PENDING"],
     due |-> [i \in 1..Len(disk) |-> "unchecked"],
     order |-> <<>>,
     response |-> "none",
     fetched |-> <<>>,
     handed |-> <<>>,
     stamped |-> [i \in 1..Len(disk) |-> -1],
     writes |-> 0,
     writeAfter |-> <<>>,
     threw |-> FALSE,
     configAtStart |-> disk,
     filesAtStart |-> files]

RunIdle ==
    /\ configDisk = <<>>
    /\ pc = "idle"
    /\ token = FALSE
    /\ slugArg = Null
    /\ platform = "google"
    /\ config = <<>>
    /\ selected = <<>>
    /\ idx = 0
    /\ queue = <<>>
    /\ exitCode = -1
    /\ runLog = RunLogInit(<<>>, <<>>)

\* the business directories under data/, all empty, and no image
Slugs == {"b1", "b2"}

DiskInit ==
    /\ reviewFiles = [d \in Slugs |-> <<>>]
    /\ imageFiles = {}
    /\ imageRequests = 0
    /\ imageWrites = 0
    /\ thumbAttempts = 0

(***************************************************************************)
(* Specification ShouldFetchSpec: shouldFetch applied to bounded inputs.   *)
(***************************************************************************)
TzOffsets == {0 - MsPerHour, 0, MsPerHour}

\* instants around the day boundaries
DayInstants ==
    {d * MsPerDay + e : d \in 0..MaxDays, e \in {0, MsPerDay - 1}}

SfTimestamps ==
    {Undefined, EmptyTs, GarbageTs, IsoTs(0), IsoTs(1), LocalTs(0),
     IsoTs(MsPerDay)}

SfBusinesses ==
    [slug : {"b1"},
     last_fetched : SfTimestamps,
     last_fetched_google : SfTimestamps,
     last_fetched_facebook : {Undefined, IsoTs(0)},
     last_fetched_trustpilot : {Undefined},
     fetch_frequency_days : 0..MaxFreqDays]

SfInit ==
    /\ now \in DayInstants
    /\ tz \in TzOffsets
    /\ sfBusiness \in SfBusinesses
    /\ sfSource \in {NoSource, "google", "facebook"}
    /\ sfResult = [called |-> FALSE, value |-> FALSE]
    /\ DiskInit
    /\ saveLog = <<>>
    /\ imageLog = <<>>
    /\ apiLog = <<>>
    /\ latest = LatestIdle
    /\ norm = NormIdle
    /\ acq = AcqIdle
    /\ dst = FALSE
    /\ RunIdle

ShouldFetchCall ==
    /\ ~sfResult.called
    /\ sfResult' = [called |-> TRUE,
                    value |-> shouldFetch(sfBusiness, sfSource, now, tz)]
    /\ UNCHANGED <<now, tz, dst, sfBusiness, sfSource, imageLog, apiLog, latest,
                   norm, acq, diskVars, saveLog,
                   runVars>>

SfNext == ShouldFetchCall

ShouldFetchSpec == SfInit /\ [][SfNext]_vars

(***************************************************************************)
(* Specification StoreSpec: a sequence of saveReview calls on the review   *)
(* directories, starting from empty directories.                           *)
(***************************************************************************)
MaxSaves == 2           \* saveReview calls in one behaviour of StoreSpec

Repeat(c, n) == [i \in 1..n |-> c]

\* author names: two that differ only in case, punctuation and spacing, the
\* empty name and the name of its default, and two long names that agree on
\* their first FilenameNameMax characters
JoD == <<"J", "o", " ", "D">>
JoD2 == <<"j", "o", "!", " ", "\t", "d">>
LongY == Repeat("x", FilenameNameMax) \o <<"y">>
LongZ == Repeat("x", FilenameNameMax) \o <<"z">>

Review(author, date, rating, content, userId, photoUrl) ==
    [author |-> author, authorUrl |-> "", date |-> date, rating |-> rating,
     content |-> content, userId |-> userId, photoUrl |-> photoUrl]

StoreReviews ==
    {Review(JoD, ValidDate(0), 5, "Great!", "u1", "http://img/1"),
     Review(JoD2, ValidDate(MsPerDay - 1), 1, "Lovely place", Null, ""),
     Review(JoD, ValidDate(MsPerDay), 5, "Great!", "u1", "http://img/1"),
     Review(JoD, InvalidDate, 5, "Great!", "u2", "https://img/2"),
     Review(<<>>, ValidDate(0), 4, "Great!", Null, ""),
     Review(AnonymousName, ValidDate(0), 3, "Very good", "u2", ""),
     Review(LongY, ValidDate(0), 5, "Great!", Null, "http://img/1"),
     Review(LongZ, ValidDate(0), 2, "Not great", Null, ""),
     Review(AnonymousName, ValidDate(MsPerDay), 4, "Very good", "u1",
            "ftp://img/3"),
     Review(JoD2, ValidDate(MsPerDay + MsPerDay), 3, "Fine by me", "u1", "")}

StoreInit ==
    /\ now = 0
    /\ tz = 0
    /\ sfBusiness = CHOOSE b \in SfBusinesses : TRUE
    /\ sfSource = NoSource
    /\ sfResult = [called |-> FALSE, value |-> FALSE]
    /\ DiskInit
    /\ saveLog = <<>>
    /\ imageLog = <<>>
    /\ apiLog = <<>>
    /\ latest = LatestIdle
    /\ norm = NormIdle
    /\ acq = AcqIdle
    /\ dst = FALSE
    /\ RunIdle

\* what a saveReview call that got past the existence test made of the
\* thumbnail: "none" (no attempt), "true", "false" or "threw"
acquired(review, images, outcome) ==
    LET t == tryDownloadThumbnail(review, images, outcome)
    IN  CASE t.attempts = 0 -> "none"
          [] t.threw -> "threw"
          [] t.path # Null -> "true"
          [] OTHER -> "false"

\* await saveReview(review, dir, source)
SaveReviewCall(review, dir, outcome) ==
    LET r == saveReview(review, reviewFiles[dir], imageFiles, "google", now,
                        outcome)
        filename == formatFilename(review.author, review.date, now)
    IN  /\ Len(saveLog) < MaxSaves
        /\ reviewFiles' = [reviewFiles EXCEPT ![dir] = r.files]
        /\ imageFiles' = r.images
        /\ imageRequests' = imageRequests + r.requests
        /\ imageWrites' = imageWrites + r.writes
        /\ thumbAttempts' = thumbAttempts + r.attempts
        /\ saveLog' = Append(saveLog,
               [review |-> review, dir |-> dir, outcome |-> r.outcome,
                filesChanged |-> r.files # reviewFiles[dir],
                imagesChanged |-> r.images # imageFiles,
                attempts |-> r.attempts, requests |-> r.requests,
                network |-> outcome,
                acquired |-> IF r.outcome = "exists" THEN "none"
                             ELSE acquired(review, imageFiles, outcome),
                thumbnail |-> IF r.outcome = "saved"
                              THEN r.files[filename].thumbnail ELSE Null,
                imagesPresent |-> imageFilesExist(getImagePaths(review.userId),
                                                  r.images)])
        /\ UNCHANGED <<now, tz, dst, callVars, runVars>>

\* the outcome of the network is a choice only where a request is issued
StoreNext ==
    \E review \in StoreReviews, dir \in Slugs, outcome \in ImageOutcomes :
        /\ outcome # "fail" =>
               /\ Truthy(review.userId)
               /\ requestIssued(review.photoUrl, review.userId, imageFiles)
        /\ SaveReviewCall(review, dir, outcome)

StoreSpec == StoreInit /\ [][StoreNext]_vars

(***************************************************************************)
(* Specification ThumbSpec: a sequence of downloadAndProcessImage calls on *)
(* the image directory, starting from an empty directory.                  *)
(***************************************************************************)
MaxImageCalls == 3      \* downloadAndProcessImage calls in one behaviour

\* url arguments: absent, empty, one that new URL() accepts, one it rejects,
\* one it accepts with a protocol other than http(s)
ImageUrls == {Null, "", "http://img/1", "not a url", "ftp://img/3"}
ImageUserIds == {Null, "u1", "u2"}

ThumbInit ==
    /\ now = 0
    /\ tz = 0
    /\ sfBusiness = CHOOSE b \in SfBusinesses : TRUE
    /\ sfSource = NoSource
    /\ sfResult = [called |-> FALSE, value |-> FALSE]
    /\ DiskInit
    /\ saveLog = <<>>
    /\ imageLog = <<>>
    /\ apiLog = <<>>
    /\ latest = LatestIdle
    /\ norm = NormIdle
    /\ acq = AcqIdle
    /\ dst = FALSE
    /\ RunIdle

\* await downloadAndProcessImage(url, userId)
DownloadAndProcessImageCall(url, userId, outcome) ==
    LET d == downloadAndProcessImage(url, userId, imageFiles, outcome)
        paths == getImagePaths(userId)
    IN  /\ Len(imageLog) < MaxImageCalls
        /\ imageFiles' = d.images
        /\ imageRequests' = imageRequests + d.requests
        /\ imageWrites' = imageWrites + d.writes
        /\ thumbAttempts' = thumbAttempts + 1
        /\ imageLog' = Append(imageLog,
               [url |-> url, userId |-> userId,
                had1x |-> paths.filepath1x \in imageFiles,
                had2x |-> paths.filepath2x \in imageFiles,
                result |-> d.result, threw |-> d.threw,
                requests |-> d.requests,
                writes |-> d.writes, imagesChanged |-> d.images # imageFiles])
        /\ UNCHANGED <<now, tz, dst, sfBusiness, sfSource, sfResult, apiLog,
                       latest, norm, acq, reviewFiles, saveLog, runVars>>

\* the outcome of the network is a choice only where a request is issued
ThumbNext ==
    \E url \in ImageUrls, userId \in ImageUserIds, outcome \in ImageOutcomes :
        /\ outcome # "fail" => requestIssued(url, userId, imageFiles)
        /\ DownloadAndProcessImageCall(url, userId, outcome)

ThumbSpec == ThumbInit /\ [][ThumbNext]_vars

(***************************************************************************)
(* Specification LatestSpec: getLatestReviewDate applied to a directory.   *)
(***************************************************************************)
\* review dates: midnight of day 0, half past midnight of day 1, noon of day
\* 2, half an hour before the end of day 2
LatestInstants ==
    {0, MsPerDay + (MsPerHour \div 2), MsPerDay + MsPerDay + 12 * MsPerHour,
     MsPerDay + MsPerDay + 23 * MsPerHour + (MsPerHour \div 2)}

LatestContents ==
    {FileContent("garbage", Undefined), FileContent("null", Undefined),
     FileContent("number", Undefined), FileContent("object", Undefined),
     FileContent("object", NullTs), FileContent("object", GarbageTs)}
        \cup {FileContent("object", IsoTs(t)) : t \in LatestInstants}

LatestNames == {<<"a", ".json">>, <<"b", ".json">>, <<"readme", ".txt">>}

LatestDirs ==
    UNION {[names -> LatestContents] : names \in SUBSET LatestNames}

\* zones: UTC, UTC with daylight saving time (Europe/London), and fixed
\* offsets one hour either side
LatestZones ==
    {[tz |-> 0, dst |-> FALSE], [tz |-> 0, dst |-> TRUE],
     [tz |-> MsPerHour, dst |-> FALSE], [tz |-> 0 - MsPerHour, dst |-> FALSE]}

LatestInit ==
    /\ now = 0
    /\ \E zone \in LatestZones : tz = zone.tz /\ dst = zone.dst
    /\ sfBusiness = CHOOSE b \in SfBusinesses : TRUE
    /\ sfSource = NoSource
    /\ sfResult = [called |-> FALSE, value |-> FALSE]
    /\ \E dir \in LatestDirs : reviewFiles = [d \in Slugs |-> dir]
    /\ imageFiles = {}
    /\ imageRequests = 0
    /\ imageWrites = 0
    /\ thumbAttempts = 0
    /\ saveLog = <<>>
    /\ imageLog = <<>>
    /\ apiLog = <<>>
    /\ latest \in {[LatestIdle EXCEPT !.dirExists = e] : e \in BOOLEAN}
    /\ latest.dirExists \/ reviewFiles["b1"] = <<>>
    /\ norm = NormIdle
    /\ acq = AcqIdle
    /\ RunIdle

\* getLatestReviewDate(businessDir), businessDir being data/b1
GetLatestReviewDateCall ==
    /\ ~latest.called
    /\ latest' = [latest EXCEPT
                     !.called = TRUE,
                     !.value = getLatestReviewDate(latest.dirExists,
                                                   reviewFiles["b1"], tz, dst)]
    /\ UNCHANGED <<now, tz, dst, sfBusiness, sfSource, sfResult, imageLog,
                   apiLog, norm, acq, diskVars, saveLog, runVars>>

LatestNext == GetLatestReviewDateCall

LatestSpec == LatestInit /\ [][LatestNext]_vars

(***************************************************************************)
(* Specification ApiSpec: a sequence of fetchApiArray calls.               *)
(***************************************************************************)
MaxApiCalls == 2        \* fetchApiArray calls in one behaviour of ApiSpec

\* errors of the primary transport: DNS failures by code, by code and
\* message, by message only; a refused connection; the timeout; a status
\* of 400 or more
PrimaryErrors ==
    {ApiError("EAI_AGAIN", <<"DNS", "lookup", "failed">>),
     ApiError("EAI_AGAIN", <<"getaddrinfo", "EAI_AGAIN", "api.apify.com">>),
     ApiError(Null, <<"getaddrinfo", "EAI_AGAIN", "api.apify.com">>),
     ApiError("ECONNREFUSED", <<"Connection", "refused">>),
     ApiError(Null, <<"Request", "timeout">>),
     ApiError(Null, <<"HTTP", "500:", "error">>)}

\* top-level values of a response: two arrays and one value of each other
\* kind
ApiJsonValues ==
    {JsonValue("array", <<>>), JsonValue("array", <<"item">>),
     JsonValue("object", <<>>), JsonValue("string", <<>>),
     JsonValue("number", <<>>), JsonValue("null", <<>>)}

ApiBodies == {NoBody} \cup {Body(TRUE, v) : v \in ApiJsonValues}

\* the text of a response body, as it appears inside an error message
bodyText(body) == IF body.valid THEN <<body.value.kind>> ELSE <<"not", "JSON">>

\* makeApiRequestHttps when the server answers: the "end" handler of the
\* response, [rejected, error, body, status]
makeApiRequestHttps(response) ==
    IF response.status >= 400
    THEN Rejected(ApiError(Null, <<"HTTP">> \o decimal(response.status)
                                 \o <<":">> \o bodyText(response.body)))
             @@ [status |-> response.status]
    ELSE Resolved(response.body) @@ [status |-> response.status]

\* answers of the server: a status and a body
HttpsResponses == [status : {200, 204, 302, 404, 500}, body : ApiBodies]

\* outcomes of the primary transport: an answer of the server, or an error
\* before any answer (status 0)
Transports ==
    {makeApiRequestHttps(r) : r \in HttpsResponses}
    \cup {Rejected(e) @@ [status |-> 0] : e \in PrimaryErrors}

CurlRuns == {Resolved(b) : b \in ApiBodies} \cup {Rejected(CurlFailed)}

\* the run of curl when curl is not called
NoCurl == Rejected(NoError)

ApiInit ==
    /\ now = 0
    /\ tz = 0
    /\ sfBusiness = CHOOSE b \in SfBusinesses : TRUE
    /\ sfSource = NoSource
    /\ sfResult = [called |-> FALSE, value |-> FALSE]
    /\ DiskInit
    /\ saveLog = <<>>
    /\ imageLog = <<>>
    /\ apiLog = <<>>
    /\ latest = LatestIdle
    /\ norm = NormIdle
    /\ acq = AcqIdle
    /\ dst = FALSE
    /\ RunIdle

\* await fetchApiArray(url, data)
FetchApiArrayCall(https, curl) ==
    LET r == fetchApiArray(https, curl)
    IN  /\ Len(apiLog) < MaxApiCalls
        /\ apiLog' = Append(apiLog,
               [https |-> https,
                curl |-> IF r.fallback = 0 THEN NoCurl ELSE curl,
                primary |-> r.primary, fallback |-> r.fallback,
                threw |-> r.threw, error |-> r.error,
                parsed |-> r.parsed, results |-> r.results])
        /\ UNCHANGED <<now, tz, dst, sfBusiness, sfSource, sfResult, imageLog,
                       latest, norm, acq, diskVars, saveLog, runVars>>

ApiNext ==
    \E https \in Transports, curl \in CurlRuns : FetchApiArrayCall(https, curl)

ApiSpec == ApiInit /\ [][ApiNext]_vars

(***************************************************************************)
(* Specification NormSpec: one normalizer applied to one raw record.       *)
(***************************************************************************)
LongFacebookId ==
    <<"s", "o", "m", "e", "-", "l", "o", "n", "g", "-", "s", "t", "r", "i",
      "n", "g", "-", "i", "d", "-", "h", "e", "r", "e">>

RawDates == {JsUndefined, JsString(DateString(MsPerDay)),
             JsString(<<"yesterday">>)}

GoogleRaws ==
    [text : {JsUndefined, JsNull,
             JsString(<<"G", "o", "o", "d", " ", "j", "o", "b">>)},
     reviewText : {JsUndefined, JsString(<<"A", "l", "t">>)},
     publishedAtDate : RawDates,
     stars : {JsUndefined, JsNumber(0), JsNumber(5), JsNumber(6),
              JsString(<<"5">>)},
     rating : {JsUndefined, JsNumber(4)},
     name : {JsUndefined, JsString(<<"J", "o">>)},
     authorName : {JsUndefined, JsString(<<"A", "l">>)},
     reviewerUrl : {JsUndefined, JsNull,
                    JsString(<<"https://maps.google.com/maps">> \o Contrib
                             \o <<"1", "2">>),
                    JsString(<<"https://example.com/review/1">>),
                    JsNumber(12345)},
     authorUrl : {JsUndefined,
                  JsString(<<"https://maps.google.com/maps">> \o Contrib
                           \o <<"7", "?">>)},
     reviewerPhotoUrl : {JsUndefined, JsString(<<"https://img/1">>)},
     userPhotoUrl : {JsUndefined, JsString(<<"https://img/2">>)},
     reviewerAvatar : {JsUndefined, JsString(<<"https://img/2">>)}]

FacebookUsers ==
    {UserValue(JsUndefined), UserValue(JsNull),
     UserValue(JsString(<<"J", "o">>))}
    \cup {UserObject(name, id, profileUrl, profilePic) :
            name \in {JsUndefined, JsString(<<"J", "o">>)},
            id \in {JsUndefined, JsString(<<"1", "2", "3">>),
                    JsString(LongFacebookId), JsNumber(12345),
                    JsNumber(0 - 5), JsBoolean(TRUE)},
            profileUrl \in {JsUndefined,
                            JsString(<<"https://example.com/review/1">>)},
            profilePic \in {JsUndefined, JsString(<<"https://img/1">>)}}

FacebookRaws ==
    [text : {JsUndefined, JsNull,
             JsString(<<"G", "o", "o", "d", " ", "j", "o", "b">>)},
     date : RawDates,
     isRecommended : {JsUndefined, JsBoolean(TRUE), JsBoolean(FALSE)},
     url : {JsUndefined, JsString(<<"https://example.com/review/1">>)},
     user : FacebookUsers]

TrustpilotTitles ==
    {JsUndefined, JsNull, JsString(<<>>), JsNumber(5),
     JsString(<<"H", "i">>),
     JsString(<<" ", "H", "i", " ">>),
     JsString(<<"h", "i">>),
     JsString(<<"H", "i", "!">>),
     JsString(<<"H", "i", "?">>),
     JsString(<<"H", "i", ".">>),
     JsString(<<"H", "i", " ", ".", ".", ".">>),
     JsString(<<"H", "i">> \o SourceEllipsis),
     JsString(<<"H", "i">> \o SourceEllipsis \o <<".">>),
     JsString(<<"H", "i", "U+2026">>),
     JsString(<<" ", " ">>)}

TrustpilotBodies ==
    {JsUndefined, JsNull, JsString(<<>>), JsNumber(5),
     JsString(<<"H", "i", " ", "a", "l", "l">>),
     JsString(<<"h", "I", " ", "a", "l", "l">>),
     JsString(<<"O", "k">>),
     JsString(<<" ", "O", "k", " ">>),
     JsString(<<"O", "k", "\n">>),
     JsString(<<"h">>)}

TrustpilotRaws ==
    [reviewTitle : TrustpilotTitles,
     reviewText : TrustpilotBodies,
     date : {JsUndefined, JsString(DateString(MsPerDay))},
     ratingValue : {JsUndefined, JsString(<<"5">>), JsString(<<"7">>),
                    JsString(<<"-", "2">>), JsString(<<"4", ".", "5">>),
                    JsString(<<"f", "i", "v", "e">>), JsNumber(3)},
     name : {JsUndefined, JsString(<<"J", "o">>)},
     url : {JsUndefined, JsString(<<"https://example.com/review/1">>)},
     avatar : {JsUndefined, JsString(<<"https://img/1">>)},
     reviewId : {JsUndefined, JsString(<<"a", "b", "1">>), JsNumber(42)}]

NormInit ==
    /\ now = MsPerDay + MsPerDay
    /\ tz = 0
    /\ dst = FALSE
    /\ sfBusiness = CHOOSE b \in SfBusinesses : TRUE
    /\ sfSource = NoSource
    /\ sfResult = [called |-> FALSE, value |-> FALSE]
    /\ DiskInit
    /\ saveLog = <<>>
    /\ imageLog = <<>>
    /\ apiLog = <<>>
    /\ latest = LatestIdle
    /\ RunIdle
    /\ acq = AcqIdle
    /\ norm \in {[NormIdle EXCEPT !.platform = "google", !.raw = r] :
                     r \in GoogleRaws}
                \cup {[NormIdle EXCEPT !.platform = "facebook", !.raw = r] :
                          r \in FacebookRaws}
                \cup {[NormIdle EXCEPT !.platform = "trustpilot", !.raw = r] :
                          r \in TrustpilotRaws}

NormalizeReturn(outcome) ==
    /\ norm' = [norm EXCEPT !.called = TRUE, !.threw = outcome.threw,
                            !.review = outcome.value]
    /\ UNCHANGED <<now, tz, dst, sfBusiness, sfSource, sfResult, imageLog,
                   apiLog, latest, acq, diskVars, saveLog, runVars>>

NormalizeGoogleCall ==
    /\ norm.platform = "google"
    /\ ~norm.called
    /\ NormalizeReturn(normalizeGoogleReview(norm.raw, now))

NormalizeFacebookCall ==
    /\ norm.platform = "facebook"
    /\ ~norm.called
    /\ NormalizeReturn(normalizeFacebookReview(norm.raw, now))

NormalizeTrustpilotCall ==
    /\ norm.platform = "trustpilot"
    /\ ~norm.called
    /\ NormalizeReturn(normalizeTrustpilotReview(norm.raw, now))

NormNext ==
    \/ NormalizeGoogleCall
    \/ NormalizeFacebookCall
    \/ NormalizeTrustpilotCall

NormSpec == NormInit /\ [][NormNext]_vars

(***************************************************************************)
(* Specification Spec: platform runs (fetch-google-reviews.js,             *)
(* fetch-facebook-reviews.js) on a configuration of two businesses.        *)
(***************************************************************************)
RunPlatforms == {"google", "facebook"}
SlugArgs == {Null, "b2", "zz"}

Business(slug, googleId, facebookUrl, lastFetched, lastFetchedGoogle, minRating) ==
    [slug |-> slug,
     google_business_id |-> googleId,
     facebook_page_url |-> facebookUrl,
     trustpilot_url |-> "",
     last_fetched |-> lastFetched,
     last_fetched_google |-> lastFetchedGoogle,
     last_fetched_facebook |-> Undefined,
     last_fetched_trustpilot |-> Undefined,
     fetch_frequency_days |-> 1,
     minimum_star_rating |-> minRating,
     number_of_reviews |-> -1]

\* a business on Google only and never fetched; one on both platforms whose
\* Google reviews were fetched at instant 0; one on Facebook only with a
\* generic timestamp
BusinessKinds(slug) ==
    {Business(slug, "ChIJ", "", Undefined, Undefined, 4),
     Business(slug, "ChIJ", "https://fb/page", Undefined, IsoTs(0), 3),
     Business(slug, "", "https://fb/page", IsoTs(0), Undefined, 4)}

RunConfigs == {<<a, b>> : a \in BusinessKinds("b1"), b \in BusinessKinds("b2")}

\* normalized reviews the API may deliver: a review of five characters, the
\* four ratings 5, 3, 1, 4 with sufficient content, a review without
\* content, and one whose date string did not parse
ApiReviews ==
    <<Review(<<"E", "d">>, ValidDate(0), 5, "Great", Null, ""),
      Review(<<"A", "l">>, ValidDate(0), 5, "Great!", "u1", "http://img/1"),
      Review(<<"B", "o">>, ValidDate(0), 3, "It was ok", Null, ""),
      Review(<<"C", "y">>, ValidDate(MsPerDay), 1, "Terrible", Null, ""),
      Review(<<"D", "i">>, ValidDate(0), 4, "Lovely place", "u1", "http://img/1"),
      Review(<<"F", "y">>, ValidDate(0), 5, Null, Null, ""),
      Review(<<"G", "u">>, InvalidDate, 5, "Great!", Null, "")>>

\* the API results of one request: any run of consecutive entries of
\* ApiReviews, the empty one included
ApiBatches ==
    {SubSeq(ApiReviews, from, to) :
        from \in 1..Len(ApiReviews), to \in 0..Len(ApiReviews)}

\* the parsed answers of the API: the arrays, and one value of every other
\* kind
RunJsonValues ==
    {JsonValue("array", batch) : batch \in ApiBatches}
        \cup {JsonValue(kind, <<>>) :
                  kind \in {"object", "string", "number", "null"}}

RunInit ==
    /\ now \in {MsPerDay - 1, MsPerDay}
    /\ tz = 0
    /\ sfBusiness = CHOOSE b \in SfBusinesses : TRUE
    /\ sfSource = NoSource
    /\ sfResult = [called |-> FALSE, value |-> FALSE]
    /\ DiskInit
    /\ saveLog = <<>>
    /\ imageLog = <<>>
    /\ apiLog = <<>>
    /\ latest = LatestIdle
    /\ norm = NormIdle
    /\ acq = AcqIdle
    /\ dst = FALSE
    /\ configDisk \in RunConfigs
    /\ pc = "idle"
    /\ token = FALSE
    /\ slugArg = Null
    /\ platform = "google"
    /\ config = <<>>
    /\ selected = <<>>
    /\ idx = 0
    /\ queue = <<>>
    /\ exitCode = -1
    /\ runLog = RunLogInit(configDisk, reviewFiles)

\* main() without the test of the token
StartRunNoTokenCheck(tok, slug, source) ==
    /\ pc = "idle"
    /\ token' = tok
    /\ slugArg' = slug
    /\ platform' = source
    /\ runLog' = RunLogInit(configDisk, reviewFiles)
    /\ queue' = <<>>
    /\ config' = configDisk
    /\ selected' = selectBusinesses(configDisk, 1, source, slug)
    /\ idx' = 1
    /\ IF selected' = <<>>
       THEN pc' = "done" /\ exitCode' = 0
       ELSE pc' = "loop" /\ exitCode' = -1
    /\ UNCHANGED <<now, tz, dst, callVars, diskVars, saveLog, configDisk>>

\* main(), up to the for loop of processBusinesses
StartRun(tok, slug, source) ==
    /\ pc = "idle"
    /\ token' = tok
    /\ slugArg' = slug
    /\ platform' = source
    /\ runLog' = RunLogInit(configDisk, reviewFiles)
    /\ queue' = <<>>
    /\ IF ~tok
       THEN /\ pc' = "exited"
            /\ exitCode' = 1
            /\ config' = <<>>
            /\ selected' = <<>>
            /\ idx' = 0
       ELSE /\ config' = configDisk
            /\ selected' = selectBusinesses(configDisk, 1, source, slug)
            /\ idx' = 1
            /\ IF selected' = <<>>
               THEN pc' = "done" /\ exitCode' = 0
               ELSE pc' = "loop" /\ exitCode' = -1
    /\ UNCHANGED <<now, tz, dst, callVars, diskVars, saveLog, configDisk>>

continueNever(due) == FALSE

\* if (!shouldProcess(business, source)) continue;
continueLoop(due) == ~due

\* one iteration of the for loop, up to the call of fetchReviews
LoopStep ==
    /\ pc = "loop"
    /\ idx <= Len(selected)
    /\ LET b == selected[idx]
           due == shouldFetch(config[b], platform, now, tz)
       IN  IF continueLoop(due)
           THEN /\ runLog' = [runLog EXCEPT !.status[b] = "SKIPPED",
                                            !.due[b] = IF due THEN "true" ELSE "false"]
                /\ idx' = idx + 1
                /\ pc' = "loop"
           ELSE /\ runLog' = [runLog EXCEPT !.status[b] = "FETCHING",
                                            !.due[b] = IF due THEN "true" ELSE "false",
                                            !.order = Append(@, b),
                                            !.response = "none",
                                            !.fetched = <<>>,
                                            !.handed = <<>>]
                /\ idx' = idx
                /\ pc' = "fetching"
    /\ UNCHANGED <<now, tz, dst, callVars, diskVars, saveLog, configDisk, token,
                   slugArg, platform, config, selected, queue, exitCode>>

\* the request of fetchReviews is answered with JSON text: fetchApiArray
\* validates the parsed value and throws (caught in main, process.exit(1))
\* or returns it; then the content filter and the rating filter are applied
FetchReturn(value) ==
    /\ pc = "fetching"
    /\ LET b == selected[idx]
           v == validateArrayResponse(value)
       IN  IF v.threw
           THEN /\ pc' = "exited"
                /\ exitCode' = 1
                /\ queue' = queue
                /\ runLog' = [runLog EXCEPT !.threw = TRUE,
                                            !.response = value.kind]
           ELSE /\ pc' = "saving"
                /\ exitCode' = exitCode
                /\ queue' = filterByMinRating(config[b].minimum_star_rating,
                                              contentFiltered(v.results))
                /\ runLog' = [runLog EXCEPT !.status[b] = "SAVING",
                                            !.response = value.kind,
                                            !.fetched = v.results]
    /\ UNCHANGED <<now, tz, dst, callVars, diskVars, saveLog, configDisk, token,
                   slugArg, platform, config, selected, idx>>

\* the request of fetchReviews fails (transport error, HTTP status, timeout)
\* or its answer is no JSON text: caught in main, process.exit(1)
FetchThrow ==
    /\ pc = "fetching"
    /\ pc' = "exited"
    /\ exitCode' = 1
    /\ runLog' = [runLog EXCEPT !.threw = TRUE]
    /\ UNCHANGED <<now, tz, dst, callVars, diskVars, saveLog, configDisk, token,
                   slugArg, platform, config, selected, idx, queue>>

\* one iteration of saveReviewsWithCount
SaveNext(outcome) ==
    /\ pc = "saving"
    /\ queue # <<>>
    /\ LET b == selected[idx]
           dir == config[b].slug
           r == saveReview(Head(queue), reviewFiles[dir], imageFiles, platform,
                           now, outcome)
       IN  /\ reviewFiles' = [reviewFiles EXCEPT ![dir] = r.files]
           /\ imageFiles' = r.images
           /\ imageRequests' = imageRequests + r.requests
           /\ imageWrites' = imageWrites + r.writes
           /\ thumbAttempts' = thumbAttempts + r.attempts
           /\ IF r.outcome = "threw"
              THEN /\ pc' = "exited"
                   /\ exitCode' = 1
                   /\ queue' = queue
                   /\ runLog' = [runLog EXCEPT !.threw = TRUE,
                                               !.handed = Append(@, Head(queue))]
              ELSE /\ pc' = "saving"
                   /\ exitCode' = exitCode
                   /\ queue' = Tail(queue)
                   /\ runLog' = [runLog EXCEPT !.handed = Append(@, Head(queue))]
    /\ UNCHANGED <<now, tz, dst, callVars, saveLog, configDisk, token, slugArg,
                   platform, config, selected, idx>>

FinishBusinessPersisting ==
    /\ pc = "saving"
    /\ queue = <<>>
    /\ LET b == selected[idx]
       IN  /\ config' = [config EXCEPT
                            ![b] = updateLastFetched(config[b], platform, now)]
           /\ configDisk' = config'
           /\ runLog' = [runLog EXCEPT !.status[b] = "DONE",
                                       !.stamped[b] = now]
    /\ idx' = idx + 1
    /\ pc' = "loop"
    /\ UNCHANGED <<now, tz, dst, callVars, diskVars, saveLog, token,
                   slugArg, platform, selected, queue, exitCode>>

\* saveReviewsWithCount returned: updateLastFetched(business, source)
FinishBusiness ==
    /\ pc = "saving"
    /\ queue = <<>>
    /\ LET b == selected[idx]
       IN  /\ config' = [config EXCEPT
                            ![b] = updateLastFetched(config[b], platform, now)]
           /\ runLog' = [runLog EXCEPT !.status[b] = "DONE",
                                       !.stamped[b] = now]
    /\ idx' = idx + 1
    /\ pc' = "loop"
    /\ UNCHANGED <<now, tz, dst, callVars, diskVars, saveLog, configDisk, token,
                   slugArg, platform, selected, queue, exitCode>>

FinishRunStale ==
    /\ pc = "loop"
    /\ idx > Len(selected)
    /\ configDisk' = runLog.configAtStart
    /\ runLog' = [runLog EXCEPT !.writes = @ + 1, !.writeAfter = runLog.status]
    /\ pc' = "done"
    /\ exitCode' = 0
    /\ UNCHANGED <<now, tz, dst, callVars, diskVars, saveLog, token, slugArg,
                   platform, config, selected, idx, queue>>

\* processBusinesses returned: saveConfig(config)
FinishRun ==
    /\ pc = "loop"
    /\ idx > Len(selected)
    /\ configDisk' = config
    /\ runLog' = [runLog EXCEPT !.writes = @ + 1, !.writeAfter = runLog.status]
    /\ pc' = "done"
    /\ exitCode' = 0
    /\ UNCHANGED <<now, tz, dst, callVars, diskVars, saveLog, token, slugArg,
                   platform, config, selected, idx, queue>>

\* a day passes before the run starts or while it waits for the API
Tick ==
    /\ pc \in {"idle", "fetching"}
    /\ now + MsPerDay <= MaxDays * MsPerDay
    /\ now' = now + MsPerDay
    /\ UNCHANGED <<tz, dst, callVars, diskVars, saveLog, runVars>>

Next ==
    \/ \E tok \in BOOLEAN, slug \in SlugArgs, source \in RunPlatforms :
          StartRun(tok, slug, source)
    \/ LoopStep
    \/ \E value \in RunJsonValues : FetchReturn(value)
    \/ FetchThrow
    \/ \E outcome \in ImageOutcomes : SaveNext(outcome)
    \/ FinishBusiness
    \/ FinishRun
    \/ Tick

Spec == RunInit /\ [][Next]_vars

(***************************************************************************)
(* Specification RerunSpec: a platform run and, when it aborted, the next  *)
(* run of the same script with the same argument.                          *)
(***************************************************************************)
\* main() is started again after a run that ended in the catch of main;
\* runLog.previous keeps what the aborted run did
Restart(elapsed) ==
    /\ pc = "exited"
    /\ runLog.threw
    /\ "previous" \notin DOMAIN runLog
    /\ now + elapsed <= MaxDays * MsPerDay
    /\ now' = now + elapsed
    /\ runLog' = RunLogInit(configDisk, reviewFiles) @@ [previous |-> runLog]
    /\ queue' = <<>>
    /\ config' = configDisk
    /\ selected' = selectBusinesses(configDisk, 1, platform, slugArg)
    /\ idx' = 1
    /\ IF selected' = <<>>
       THEN pc' = "done" /\ exitCode' = 0
       ELSE pc' = "loop" /\ exitCode' = -1
    /\ UNCHANGED <<tz, dst, callVars, diskVars, saveLog, configDisk, token,
                   slugArg, platform>>

\* answers of the API in the two runs: no review, runs of reviews that
\* start with the review with a photo, the last three reviews (the last of
\* them has a date that makes saveReview throw), and a value that is no
\* array
RerunJsonValues ==
    {JsonValue("array", SubSeq(ApiReviews, 2, to)) : to \in {1, 2, 3, 5}}
        \cup {JsonValue("array", SubSeq(ApiReviews, 5, 7)),
              JsonValue("object", <<>>)}

RerunNext ==
    \/ \E slug \in {Null, "b2"}, source \in RunPlatforms :
          StartRun(TRUE, slug, source)
    \/ LoopStep
    \/ \E value \in RerunJsonValues : FetchReturn(value)
    \/ FetchThrow
    \/ \E outcome \in ImageOutcomes : SaveNext(outcome)
    \/ FinishBusiness
    \/ FinishRun
    \/ Tick
    \/ \E elapsed \in {0, MsPerDay} : Restart(elapsed)

RerunSpec == RunInit /\ [][RerunNext]_vars

(***************************************************************************)
(* Specification RequestSpec: the request one business gives rise to, from *)
(* buildFetchOptions to the data handed to fetchApiArray.                  *)
(***************************************************************************)
\* CONFIG.maxReviews
ConfigMaxReviews == 9999

\* a key the object literal does not hold
NoKey == "absent"

\* the getStartDate option each script hands to createReviewFetcher
hasGetStartDate(source) == source = "google"

\* buildFetchOptions(business, businessDir, getStartDate); businessDir was
\* created by ensureBusinessDir
buildFetchOptions(business, files, zone, saving, getStartDate) ==
    [maxReviews |-> IF business.number_of_reviews = -1
                    THEN ConfigMaxReviews
                    ELSE business.number_of_reviews,
     reviewsStartDate |-> IF getStartDate
                          THEN getLatestReviewDate(TRUE, files, zone, saving)
                          ELSE NoKey]

\* options.maxReviews || CONFIG.maxReviews
maxReviewsOrDefault(options) ==
    IF options.maxReviews # 0 THEN options.maxReviews ELSE ConfigMaxReviews

\* the data of fetchReviews in fetch-google-reviews.js
googleRequestData(business, options) ==
    [startUrls |-> <<"https://www.google.com/maps/place/?q=place_id:",
                     business.google_business_id>>,
     maxReviews |-> maxReviewsOrDefault(options),
     reviewsSort |-> "newest",
     language |-> "en",
     reviewsStartDate |-> IF options.reviewsStartDate \notin {NoKey, Null, ""}
                          THEN options.reviewsStartDate
                          ELSE NoKey]

\* the data of the fetcher createApifyFetcher returns; buildFetchOptions
\* gives no extraParams
apifyRequestData(business, options, urlField) ==
    [startUrls |-> <<business[urlField]>>,
     maxReviews |-> maxReviewsOrDefault(options),
     reviewsSort |-> NoKey,
     language |-> NoKey,
     reviewsStartDate |-> NoKey]

\* the processor of createBusinessProcessor, up to the call of fetchApiArray
requestData(business, source, files, zone, saving) ==
    LET options == buildFetchOptions(business, files, zone, saving,
                                     hasGetStartDate(source))
    IN  IF source = "google"
        THEN googleRequestData(business, options)
        ELSE apifyRequestData(business, options, platformField(source))

\* businesses on all three platforms that ask for the maximum, for no
\* review and for two reviews
RequestBusinesses ==
    {[Business("b1", "ChIJ", "https://fb/page", Undefined, Undefined, 4)
         EXCEPT !.trustpilot_url = "https://tp/review",
                !.number_of_reviews = n] : n \in {-1, 0, 2}}

RequestInit ==
    /\ now = 0
    /\ \E zone \in LatestZones : tz = zone.tz /\ dst = zone.dst
    /\ sfBusiness \in RequestBusinesses
    /\ sfSource = NoSource
    /\ sfResult = [called |-> FALSE, value |-> FALSE]
    /\ \E dir \in LatestDirs : reviewFiles = [d \in Slugs |-> dir]
    /\ imageFiles = {}
    /\ imageRequests = 0
    /\ imageWrites = 0
    /\ thumbAttempts = 0
    /\ saveLog = <<>>
    /\ imageLog = <<>>
    /\ apiLog = <<>>
    /\ latest = LatestIdle
    /\ norm = NormIdle
    /\ acq = AcqIdle
    /\ RunIdle

\* the processor of the script of one platform is applied to the business
BuildRequestCall(source) ==
    /\ apiLog = <<>>
    /\ sfSource' = source
    /\ apiLog' = <<[source |-> source,
                    data |-> requestData(sfBusiness, source,
                                         reviewFiles[sfBusiness.slug],
                                         tz, dst)]>>
    /\ UNCHANGED <<now, tz, dst, sfBusiness, sfResult, imageLog, latest, norm, acq,
                   diskVars, saveLog, runVars>>

RequestNext == \E source \in Platforms : BuildRequestCall(source)

RequestSpec == RequestInit /\ [][RequestNext]_vars

(***************************************************************************)
(* Specification AcquireSpec: one call of downloadAndProcessImage followed *)
(* event by event: the requests of its redirect chain, their responses,    *)
(* errors and timeouts, and the resolve calls on the promise of each hop.  *)
(***************************************************************************)
MaxHops == 3

AcqUserId == "u1"

\* one call of downloadAndProcessImage in the chain:
\*   phase    "checking" inside the executor, "skipped" settled by the
\*            preconditions, "threw" get() threw (promise rejected),
\*            "pending" request issued, "redirected" nested call made,
\*            "answered" status refused, "receiving" body streaming,
\*            "processing" sharp at work, "done", "destroyed" by the timeout
\*            before a response, "aborted" by the timeout during the body,
\*            "errored" error handler ran
\*   timer    of request.setTimeout: "off", "armed", "fired"
\*   settled, value, by: the promise, and the event whose resolve settled it
\*   calls    resolve calls made on the promise
\*   status   of the response (0: none); error: of the "error" event
\*   curl     outcome of downloadImageWithCurl ("none": not invoked)
AcqHop(url) ==
    [url |-> url, phase |-> "checking", timer |-> "off", settled |-> FALSE,
     value |-> FALSE, by |-> "none", calls |-> 0, status |-> 0,
     error |-> NoError, curl |-> "none"]

\* resolve of a promise whose value the last call fixes
resolveOverwrite(hop, value, by) ==
    [hop EXCEPT !.settled = TRUE, !.value = value, !.by = by, !.calls = @ + 1]

\* resolve(value) of new Promise((resolve) => ...): the first call settles
resolve(hop, value, by) ==
    IF hop.settled
    THEN [hop EXCEPT !.calls = @ + 1]
    ELSE [hop EXCEPT !.settled = TRUE, !.value = value, !.by = by,
                     !.calls = @ + 1]

\* resolve on hop h and, when that settles it, the .then(resolve) of the
\* response handler that made the nested call, hop by hop
RECURSIVE settle(_, _, _, _)
settle(hops, h, value, by) ==
    LET resolved == [hops EXCEPT ![h] = resolve(@, value, by)]
    IN  IF ~hops[h].settled /\ h > 1
        THEN settle(resolved, h - 1, resolved[h].value, "nested")
        ELSE resolved

\* the executor of downloadAndProcessImage(url, userId), appended as the
\* next hop: settled by the preconditions, rejected by get(), or waiting
\* with its timer armed
startHop(hops, url, userId, images) ==
    LET pre == checkImagePreconditions(url, userId, images)
        protocol == parseUrlSafe(url)
        h == Len(hops) + 1
    IN  IF pre.skip
        THEN settle(Append(hops, [AcqHop(url) EXCEPT !.phase = "skipped"]),
                    h, pre.result, "skip")
        ELSE IF getThrows(getProtocolModule(protocol), protocol)
        THEN Append(hops, [AcqHop(url) EXCEPT !.phase = "threw"])
        ELSE Append(hops, [AcqHop(url) EXCEPT !.phase = "pending",
                                              !.timer = "armed"])

\* isRedirect(response)
isRedirect(status, location) ==
    status >= 300 /\ status < 400 /\ Truthy(location)

\* handleImageResponse accepting every 2xx status
handleImageResponse2xx(status) ==
    IF status \notin 200..299 THEN "refuse" ELSE "collect"

\* handleImageResponse: resolve(false), or collectAndProcessImage
handleImageResponse(status) ==
    IF status # 200 THEN "refuse" ELSE "collect"

\* [result, images, writes] of the two sharp(...).toFile calls on a buffer,
\* in processImageBuffer and in downloadImageWithCurl
writeBothSizes(outcome, paths, images) ==
    CASE outcome = "ok" ->
            [result |-> TRUE, writes |-> 2,
             images |-> images \cup {paths.filepath1x, paths.filepath2x}]
      [] outcome = "partial" ->
            [result |-> FALSE, writes |-> 1,
             images |-> images \cup {paths.filepath1x}]
      [] OTHER -> [result |-> FALSE, writes |-> 0, images |-> images]

\* the error handler falling back to curl on every error
createImageErrorHandlerAlways(err) == TRUE

\* createImageErrorHandler: downloadImageWithCurl is called
createImageErrorHandler(err) == isDnsError(err)

\* errors of the request: DNS by code, DNS by message, refused connection
\* and reset connection
AcqDnsErrors ==
    {ApiError("EAI_AGAIN", <<"getaddrinfo", "EAI_AGAIN">>),
     ApiError(Null, <<"getaddrinfo", "EAI_AGAIN", "img">>)}

AcqOtherErrors ==
    {ApiError("ECONNREFUSED", <<"Connection", "refused">>),
     ApiError("ECONNRESET", <<"read", "ECONNRESET">>)}

\* the error request.destroy() raises on a request without a response
HangUp == ApiError("ECONNRESET", <<"socket", "hang", "up">>)

\* response statuses, and Location headers: none, the url requested (a
\* cycle), another url, a relative reference and a url of another protocol
AcqStatuses == {200, 204, 301, 302, 404}
AcqLocations == {Null, "http://img/1", "https://img/2", "/img/1", "ftp://img/3"}

AcquireInit ==
    /\ now = 0
    /\ tz = 0
    /\ dst = FALSE
    /\ sfBusiness = CHOOSE b \in SfBusinesses : TRUE
    /\ sfSource = NoSource
    /\ sfResult = [called |-> FALSE, value |-> FALSE]
    /\ reviewFiles = [d \in Slugs |-> <<>>]
    /\ imageFiles \in {{}, {getImagePaths(AcqUserId).filepath1x},
                       {getImagePaths(AcqUserId).filepath1x,
                        getImagePaths(AcqUserId).filepath2x}}
    /\ imageRequests = 0
    /\ imageWrites = 0
    /\ thumbAttempts = 0
    /\ saveLog = <<>>
    /\ imageLog = <<>>
    /\ apiLog = <<>>
    /\ latest = LatestIdle
    /\ norm = NormIdle
    /\ acq = AcqIdle
    /\ RunIdle

\* downloadAndProcessImage(url, userId) is called
AcquireStart(url) ==
    /\ acq = AcqIdle
    /\ acq' = startHop(acq, url, AcqUserId, imageFiles)
    /\ thumbAttempts' = thumbAttempts + 1
    /\ imageRequests' = imageRequests
                            + IF acq'[1].phase = "pending" THEN 1 ELSE 0
    /\ UNCHANGED <<now, tz, dst, sfBusiness, sfSource, sfResult, imageLog,
                   apiLog, latest, norm, reviewFiles, imageFiles, imageWrites,
                   saveLog, runVars>>

\* the response of hop h arrives: createResponseHandler
ImageResponse(h, status, location) ==
    /\ h \in 1..Len(acq)
    /\ acq[h].phase = "pending"
    /\ IF isRedirect(status, location)
       THEN /\ Len(acq) < MaxHops
            /\ acq' = startHop([acq EXCEPT ![h].phase = "redirected",
                                           ![h].status = status],
                               location, AcqUserId, imageFiles)
            /\ imageRequests' = imageRequests
                                    + IF acq'[h + 1].phase = "pending"
                                      THEN 1 ELSE 0
       ELSE /\ location = Null
            /\ imageRequests' = imageRequests
            /\ IF handleImageResponse(status) = "refuse"
               THEN acq' = settle([acq EXCEPT ![h].phase = "answered",
                                              ![h].status = status],
                                  h, FALSE, "response")
               ELSE acq' = [acq EXCEPT ![h].phase = "receiving",
                                       ![h].status = status]
    /\ UNCHANGED <<now, tz, dst, sfBusiness, sfSource, sfResult, imageLog,
                   apiLog, latest, norm, reviewFiles, imageFiles, imageWrites,
                   thumbAttempts, saveLog, runVars>>

\* the body of the response of hop h is complete: "end"
ResponseEnd(h) ==
    /\ h \in 1..Len(acq)
    /\ acq[h].phase = "receiving"
    /\ acq' = [acq EXCEPT ![h].phase = "processing", ![h].timer = "off"]
    /\ UNCHANGED <<now, tz, dst, sfBusiness, sfSource, sfResult, imageLog,
                   apiLog, latest, norm, diskVars, saveLog, runVars>>

\* processImageBuffer of hop h finishes or throws
ProcessImage(h, outcome) ==
    /\ h \in 1..Len(acq)
    /\ acq[h].phase = "processing"
    /\ LET w == writeBothSizes(outcome, getImagePaths(AcqUserId), imageFiles)
       IN  /\ imageFiles' = w.images
           /\ imageWrites' = imageWrites + w.writes
           /\ acq' = settle([acq EXCEPT ![h].phase = "done"],
                            h, w.result, "response")
    /\ UNCHANGED <<now, tz, dst, sfBusiness, sfSource, sfResult, imageLog,
                   apiLog, latest, norm, reviewFiles, imageRequests,
                   thumbAttempts, saveLog, runVars>>

\* the request of hop h emits "error": before a response (any error), or
\* while the body streams (a connection error)
RequestError(h, err, curlOutcome) ==
    /\ h \in 1..Len(acq)
    /\ \/ acq[h].phase = "pending"
       \/ acq[h].phase = "receiving" /\ err \in AcqOtherErrors
    /\ IF createImageErrorHandler(err)
       THEN LET w == writeBothSizes(curlOutcome, getImagePaths(AcqUserId),
                                    imageFiles)
            IN  /\ imageFiles' = w.images
                /\ imageWrites' = imageWrites + w.writes
                /\ acq' = settle([acq EXCEPT ![h].phase = "errored",
                                             ![h].timer = "off",
                                             ![h].error = err,
                                             ![h].curl = curlOutcome],
                                 h, w.result, "error")
       ELSE /\ curlOutcome = "fail"
            /\ imageFiles' = imageFiles
            /\ imageWrites' = imageWrites
            /\ acq' = settle([acq EXCEPT ![h].phase = "errored",
                                         ![h].timer = "off",
                                         ![h].error = err],
                             h, FALSE, "error")
    /\ UNCHANGED <<now, tz, dst, sfBusiness, sfSource, sfResult, imageLog,
                   apiLog, latest, norm, reviewFiles, imageRequests,
                   thumbAttempts, saveLog, runVars>>

\* the timer of hop h fires: request.destroy(); resolve(false). The timer
\* is armed until the body has ended or the request has failed; the body
\* of a redirect or of a refused status is never read
RequestTimeout(h) ==
    /\ h \in 1..Len(acq)
    /\ acq[h].timer = "armed"
    /\ acq' = settle([acq EXCEPT
                         ![h].timer = "fired",
                         ![h].phase = CASE @ = "pending" -> "destroyed"
                                        [] @ = "receiving" -> "aborted"
                                        [] OTHER -> @],
                     h, FALSE, "timeout")
    /\ UNCHANGED <<now, tz, dst, sfBusiness, sfSource, sfResult, imageLog,
                   apiLog, latest, norm, diskVars, saveLog, runVars>>

\* the request destroyed by its timer emits "error": the error handler runs
DestroyError(h) ==
    /\ h \in 1..Len(acq)
    /\ acq[h].phase = "destroyed"
    /\ ~createImageErrorHandler(HangUp)
    /\ acq' = settle([acq EXCEPT ![h].phase = "errored", ![h].error = HangUp],
                     h, FALSE, "error")
    /\ UNCHANGED <<now, tz, dst, sfBusiness, sfSource, sfResult, imageLog,
                   apiLog, latest, norm, diskVars, saveLog, runVars>>

AcquireNext ==
    \/ \E url \in ImageUrls : AcquireStart(url)
    \/ \E h \in 1..MaxHops, status \in AcqStatuses, location \in AcqLocations :
          ImageResponse(h, status, location)
    \/ \E h \in 1..MaxHops : ResponseEnd(h)
    \/ \E h \in 1..MaxHops, outcome \in ImageOutcomes : ProcessImage(h, outcome)
    \/ \E h \in 1..MaxHops, err \in AcqDnsErrors \cup AcqOtherErrors,
          curlOutcome \in ImageOutcomes : RequestError(h, err, curlOutcome)
    \/ \E h \in 1..MaxHops : RequestTimeout(h)
    \/ \E h \in 1..MaxHops : DestroyError(h)

AcquireSpec == AcquireInit /\ [][AcquireNext]_vars

(***************************************************************************)
(* Properties of shouldFetch (ShouldFetchSpec).                            *)
(***************************************************************************)
\* the timestamp the cooldown is to be measured on: the platform's own one
\* when the record has it, the generic one otherwise
SfPlatformTs == sfBusiness[timestampField(sfSource)]
SfChosenTs == IF TsTruthy(SfPlatformTs) THEN SfPlatformTs ELSE sfBusiness.last_fetched
SfParseable(ts) == ts.kind \in {"iso", "local"}
SfInstant(ts) == IF ts.kind = "iso" THEN ts.t ELSE ts.t * MsPerSecond - tz
SfWholeDays(ts) == (now - SfInstant(ts)) \div MsPerDay

\* C5: shouldFetch is true when no last-fetch timestamp exists; with a
\* timestamp it is true when the whole days elapsed since that instant are
\* at least fetch_frequency_days (exactly that many days included) and false
\* when fewer whole days have elapsed.
C5_ShouldFetchCooldown ==
    sfResult.called =>
        /\ (~TsTruthy(SfChosenTs) => sfResult.value = TRUE)
        /\ (SfParseable(SfChosenTs)
                /\ SfWholeDays(SfChosenTs) >= sfBusiness.fetch_frequency_days
              => sfResult.value = TRUE)
        /\ (SfParseable(SfChosenTs)
                /\ SfWholeDays(SfChosenTs) < sfBusiness.fetch_frequency_days
              => sfResult.value = FALSE)

\* C5 witness: exactly fetch_frequency_days (one day, to the millisecond)
\* elapsed, and the call answered true
C5_Witness ==
    /\ sfResult.called
    /\ sfResult.value = TRUE
    /\ sfSource = NoSource
    /\ sfBusiness.last_fetched = IsoTs(0)
    /\ sfBusiness.fetch_frequency_days = 1
    /\ now = MsPerDay

\* C6: the decision is taken on last_fetched_<source> when the record has
\* it and on the generic last_fetched only when it has not; the answer is
\* true only if the chosen timestamp is missing or its cooldown has elapsed
\* (elapsed time at least fetch_frequency_days days).
SfDue(ts) ==
    \/ ~TsTruthy(ts)
    \/ /\ SfParseable(ts)
       /\ now - SfInstant(ts) >= sfBusiness.fetch_frequency_days * MsPerDay

C6_PlatformTimestampFirst ==
    sfResult.called =>
        /\ (TsTruthy(SfPlatformTs) => sfResult.value = SfDue(SfPlatformTs))
        /\ (~TsTruthy(SfPlatformTs)
              => sfResult.value = SfDue(sfBusiness.last_fetched))
        /\ (sfResult.value = TRUE => SfDue(SfChosenTs))

\* C6 witness: the platform timestamp is recent, the generic one is old
\* enough to be due, and the call for the platform answered false
C6_Witness ==
    /\ sfResult.called
    /\ sfResult.value = FALSE
    /\ sfSource = "google"
    /\ TsTruthy(sfBusiness.last_fetched_google)
    /\ ~SfDue(sfBusiness.last_fetched_google)
    /\ TsTruthy(sfBusiness.last_fetched)
    /\ SfDue(sfBusiness.last_fetched)

(***************************************************************************)
(* Properties of saveReview (StoreSpec).                                   *)
(***************************************************************************)
\* C3: saving the same review to the same directory twice returns true then
\* false: a call that repeats an earlier completed call returns false,
\* changes no review file and no image file and makes no thumbnail attempt
\* or request; the first call on a directory, when it completes, returns
\* true.
C3_SaveIdempotent ==
    /\ \A i \in 1..Len(saveLog), j \in 1..Len(saveLog) :
          (/\ i < j
           /\ saveLog[i].review = saveLog[j].review
           /\ saveLog[i].dir = saveLog[j].dir
           /\ saveLog[i].outcome # "threw")
          => /\ saveLog[j].outcome = "exists"
             /\ ~saveLog[j].filesChanged
             /\ ~saveLog[j].imagesChanged
             /\ saveLog[j].attempts = 0
             /\ saveLog[j].requests = 0
    /\ \A i \in 1..Len(saveLog) :
          (/\ saveLog[i].outcome # "threw"
           /\ \A k \in 1..(i - 1) : saveLog[k].dir # saveLog[i].dir)
          => saveLog[i].outcome = "saved" /\ saveLog[i].filesChanged

\* C3 witness: a review with userId and photoUrl saved twice in a row (true,
\* then false) while its thumbnail is still missing, so that an acquisition
\* attempt on the second call would have gone to the network
C3_Witness ==
    /\ Len(saveLog) >= 2
    /\ saveLog[1].review = saveLog[2].review
    /\ saveLog[1].dir = saveLog[2].dir
    /\ saveLog[1].outcome = "saved"
    /\ saveLog[2].outcome = "exists"
    /\ Truthy(saveLog[1].review.userId)
    /\ Truthy(saveLog[1].review.photoUrl)
    /\ saveLog[1].attempts = 1
    /\ ~imageFilesExist(getImagePaths(saveLog[1].review.userId), imageFiles)

\* The author slug as the claim words it: lower-cased, every character that
\* is not a letter, digit or white space removed, each run of white space
\* turned into one dash, cut to the first 30 characters (an empty name
\* counting as "anonymous").
ClaimSlugLength == 30
ClaimLower(name) ==
    [i \in 1..Len(name) |->
        IF \E k \in 1..26 : UpperCase[k] = name[i]
        THEN LowerCase[CHOOSE k \in 1..26 : UpperCase[k] = name[i]]
        ELSE name[i]]
ClaimKept(c) == c \in Range(LowerCase) \cup Digits \cup Whitespace
ClaimClean(name) == SelectSeq(ClaimLower(name), ClaimKept)
ClaimMarked(s) ==
    [i \in 1..Len(s) |->
        IF s[i] \notin Whitespace THEN s[i]
        ELSE IF i = 1 \/ s[i - 1] \notin Whitespace THEN "-" ELSE "drop"]
ClaimNotDropped(c) == c # "drop"
ClaimDashed(name) == SelectSeq(ClaimMarked(ClaimClean(name)), ClaimNotDropped)
ClaimSlug(name) ==
    LET full == ClaimDashed(IF name = <<>> THEN Anonymous ELSE name)
    IN  [i \in 1..(IF Len(full) > ClaimSlugLength THEN ClaimSlugLength
                   ELSE Len(full)) |-> full[i]]
ClaimDay(ms) == ms \div MsPerDay

\* C4: deduplication is by file name only. Of two dated reviews saved to one
\* directory whose author slug and calendar day coincide, the first call
\* having completed, the one saved second is skipped (saveReview returns false) whatever its content, rating
\* or userId; and a directory never holds two files for one (slug, day).
C4_DedupByFilename ==
    /\ \A i \in 1..Len(saveLog), j \in 1..Len(saveLog) :
          (/\ i < j
           /\ saveLog[i].dir = saveLog[j].dir
           /\ saveLog[i].outcome # "threw"
           /\ saveLog[i].review.date.valid
           /\ saveLog[j].review.date.valid
           /\ ClaimSlug(saveLog[i].review.author)
                = ClaimSlug(saveLog[j].review.author)
           /\ ClaimDay(saveLog[i].review.date.ms)
                = ClaimDay(saveLog[j].review.date.ms))
          => saveLog[j].outcome = "exists" /\ ~saveLog[j].filesChanged
    /\ \A d \in Slugs :
          \A f \in DOMAIN reviewFiles[d], g \in DOMAIN reviewFiles[d] :
              (/\ ClaimSlug(reviewFiles[d][f].author)
                    = ClaimSlug(reviewFiles[d][g].author)
               /\ ClaimDay(reviewFiles[d][f].date.t)
                    = ClaimDay(reviewFiles[d][g].date.t))
              => f = g

\* C4 witness: two reviews of one slug and day that differ in author
\* spelling, time of day, content, rating and userId; the second is skipped
C4_Witness ==
    /\ Len(saveLog) >= 2
    /\ saveLog[1].dir = saveLog[2].dir
    /\ saveLog[1].review.author # saveLog[2].review.author
    /\ saveLog[1].review.date # saveLog[2].review.date
    /\ saveLog[1].review.content # saveLog[2].review.content
    /\ saveLog[1].review.rating # saveLog[2].review.rating
    /\ saveLog[1].review.userId # saveLog[2].review.userId
    /\ saveLog[1].outcome = "saved"
    /\ saveLog[2].outcome = "exists"
    /\ Cardinality(DOMAIN reviewFiles[saveLog[1].dir]) = 1

(***************************************************************************)
(* Properties of the platform run (Spec).                                  *)
(***************************************************************************)
RunBusinesses == 1..Len(runLog.status)

\* C1: when fetching or saving has thrown for a business, the run has exited
\* with a non-zero code without writing the configuration: config.json holds
\* what it held when the run started, for every business, those processed
\* successfully before the failure included.
C1_AbortKeepsConfig ==
    runLog.threw =>
        /\ pc = "exited"
        /\ exitCode > 0
        /\ runLog.writes = 0
        /\ configDisk = runLog.configAtStart
        /\ \A i \in RunBusinesses :
              configDisk[i][timestampField(platform)] =
                  runLog.configAtStart[i][timestampField(platform)]

\* the run aborted after an earlier business had been processed and stamped
C1_Witness ==
    /\ runLog.threw
    /\ \E i \in RunBusinesses :
          /\ runLog.status[i] = "DONE"
          /\ config[i][timestampField(platform)] = FormatTimestamp(runLog.stamped[i])
          /\ config[i] # configDisk[i]

\* C2, as stated: a run that ends without an error has written the
\* configuration exactly once.
C2_AsStated ==
    (pc = "done" /\ exitCode = 0) => runLog.writes = 1

\* C2: in a run that selected at least one business and in which every
\* selected business was processed or skipped without error, the
\* configuration is written exactly once, after the last business, and what
\* is written holds the new platform timestamp of every business fetched in
\* the run; no write happens before the run has ended.
C2_SingleWriteAfterLast ==
    /\ pc # "done" => runLog.writes = 0
    /\ (pc = "done" /\ selected # <<>>) =>
          /\ runLog.writes = 1
          /\ \A k \in 1..Len(selected) :
                runLog.writeAfter[selected[k]] \in {"SKIPPED", "DONE"}
          /\ \A i \in RunBusinesses :
                runLog.status[i] = "DONE" =>
                    configDisk[i][timestampField(platform)] =
                        FormatTimestamp(runLog.stamped[i])
          /\ \A i \in RunBusinesses :
                runLog.status[i] # "DONE" =>
                    configDisk[i] = runLog.configAtStart[i]

\* a run over two businesses, one skipped and one fetched, has ended and the
\* file on disk differs from the one the run started from
C2_Witness ==
    /\ pc = "done"
    /\ Len(selected) = 2
    /\ \E i, j \in RunBusinesses :
          /\ runLog.status[i] = "SKIPPED"
          /\ runLog.status[j] = "DONE"
          /\ configDisk[j] # runLog.configAtStart[j]

\* C7: the processor is invoked exactly on the businesses for which
\* shouldFetch gave true, in configuration order, and each invocation has
\* finished before the next begins; a business for which shouldFetch gave
\* false is skipped: it is not fetched, its directory and its record in the
\* configuration stay as they were.
C7_DueProcessedInOrder ==
    /\ \A i \in RunBusinesses :
          /\ runLog.due[i] = "true" <=> i \in Range(runLog.order)
          /\ runLog.due[i] = "false" =>
                /\ runLog.status[i] = "SKIPPED"
                /\ config[i] = runLog.configAtStart[i]
                /\ reviewFiles[config[i].slug] =
                       runLog.filesAtStart[config[i].slug]
    /\ \A j, k \in 1..Len(runLog.order) :
          j < k => runLog.order[j] < runLog.order[k]
    /\ \A k \in 1..(Len(runLog.order) - 1) :
          runLog.status[runLog.order[k]] = "DONE"
    /\ Cardinality({i \in RunBusinesses :
                       runLog.status[i] \in {"FETCHING", "SAVING"}}) <= 1

\* a run that skipped the first business and stored reviews for the second
C7_Witness ==
    /\ pc = "done"
    /\ runLog.due = <<"false", "true">>
    /\ runLog.order = <<2>>
    /\ reviewFiles[config[2].slug] # <<>>
    /\ reviewFiles[config[1].slug] = <<>>

\* the claim's own reading of the two filters
ClaimPasses(review, minRating) ==
    /\ review.content # Null
    /\ Len(review.content) > 5
    /\ review.rating >= minRating

ClaimHanded(reviews, minRating) ==
    LET Test(review) == ClaimPasses(review, minRating)
    IN  SelectSeq(reviews, Test)

ClaimIsPrefix(s, t) ==
    Len(s) <= Len(t) /\ SubSeq(t, 1, Len(s)) = s

ClaimRatings(reviews) == [k \in 1..Len(reviews) |-> reviews[k].rating]

\* the business whose processing began last
RunCurrent == runLog.order[Len(runLog.order)]

\* C8: for the business in hand, the reviews handed to saveReview are, in
\* fetched order, the fetched reviews whose content is longer than 5
\* characters and whose rating is at least minimum_star_rating: a prefix of
\* them while saving, all of them once the business is done, and then the
\* files of its directory are exactly the files of those reviews.
C8_HandedIsFiltered ==
    runLog.order # <<>> =>
        LET b == RunCurrent
            expected == ClaimHanded(runLog.fetched,
                                    config[b].minimum_star_rating)
        IN  /\ ClaimIsPrefix(runLog.handed, expected)
            /\ (pc = "saving" /\ runLog.status[b] = "SAVING") =>
                   runLog.handed \o queue = expected
            /\ runLog.status[b] = "DONE" =>
                   /\ runLog.handed = expected
                   /\ DOMAIN reviewFiles[config[b].slug] =
                        {formatFilename(expected[k].author, expected[k].date, now) :
                            k \in 1..Len(expected)}

\* minimum_star_rating = 4 and fetched ratings 5, 3, 1, 4 with sufficient
\* content: the reviews rated 5 and 4 were handed over and stored
C8_Witness ==
    /\ runLog.order # <<>>
    /\ runLog.status[RunCurrent] = "DONE"
    /\ config[RunCurrent].minimum_star_rating = 4
    /\ ClaimRatings(runLog.fetched) = <<5, 3, 1, 4>>
    /\ \A k \in 1..Len(runLog.fetched) : Len(runLog.fetched[k].content) > 5
    /\ ClaimRatings(runLog.handed) = <<5, 4>>
    /\ Cardinality(DOMAIN reviewFiles[config[RunCurrent].slug]) = 2

\* content values around the threshold
ClaimContents == {Null, "", "Great", "Great!", "Lovely place"}

ClaimLongEnough(content) == content # Null /\ Len(content) > 5

\* C9: hasContent(review) holds exactly when review.content is not null and
\* has more than 5 characters, and no file of a review directory holds a
\* review whose content fails that test.
C9_ContentFilter ==
    /\ \A c \in ClaimContents :
          hasContent([content |-> c]) <=> ClaimLongEnough(c)
    /\ \A k \in 1..Len(runLog.fetched) :
          hasContent(runLog.fetched[k]) <=>
              ClaimLongEnough(runLog.fetched[k].content)
    /\ \A k \in 1..Len(queue) : ClaimLongEnough(queue[k].content)
    /\ \A k \in 1..Len(runLog.handed) :
          ClaimLongEnough(runLog.handed[k].content)
    /\ \A d \in Slugs : \A f \in DOMAIN reviewFiles[d] :
          ClaimLongEnough(reviewFiles[d][f].content)

\* a business is done whose batch held a review of 5 characters, one of 6
\* and one without content: only the one of 6 characters is stored
C9_Witness ==
    /\ runLog.order # <<>>
    /\ runLog.status[RunCurrent] = "DONE"
    /\ \E k \in 1..Len(runLog.fetched) :
          /\ runLog.fetched[k].content # Null
          /\ Len(runLog.fetched[k].content) = 5
    /\ \E k \in 1..Len(runLog.fetched) : runLog.fetched[k].content = Null
    /\ \E k \in 1..Len(runLog.handed) : Len(runLog.handed[k].content) = 6
    /\ \E f \in DOMAIN reviewFiles[config[RunCurrent].slug] :
          Len(reviewFiles[config[RunCurrent].slug][f].content) = 6

(***************************************************************************)
(* Properties of downloadAndProcessImage (ThumbSpec).                      *)
(***************************************************************************)
ClaimNoWork(call) ==
    /\ call.result
    /\ call.requests = 0
    /\ call.writes = 0
    /\ ~call.imagesChanged

\* C10, as stated: a call made while both files of the userId exist returns
\* true, issues no request and writes no file.
C10_AsStated ==
    \A k \in 1..Len(imageLog) :
        (imageLog[k].had1x /\ imageLog[k].had2x) => ClaimNoWork(imageLog[k])

\* C10: a call with a non-empty url and userId, made while both files of the
\* userId exist, returns true, issues no request and writes no file.
C10_ThumbnailIdempotent ==
    \A k \in 1..Len(imageLog) :
        (/\ imageLog[k].had1x
         /\ imageLog[k].had2x
         /\ imageLog[k].url \notin {Null, ""}
         /\ imageLog[k].userId \notin {Null, ""}) => ClaimNoWork(imageLog[k])

\* both files were there and the call, with a url that does not parse and
\* with one that does, returned true with the request counter unchanged
C10_Witness ==
    /\ imageRequests = 1
    /\ imageWrites = 2
    /\ \E j, k \in 1..Len(imageLog) :
          /\ imageLog[j].had1x /\ imageLog[j].had2x
          /\ imageLog[j].url = "not a url"
          /\ imageLog[j].result
          /\ imageLog[k].had1x /\ imageLog[k].had2x
          /\ imageLog[k].url = "http://img/1"
          /\ imageLog[k].result

(***************************************************************************)
(* Properties of thumbnail acquisition inside saveReview (StoreSpec).      *)
(***************************************************************************)
\* C11, as stated: whenever the acquisition attempted by a saveReview call
\* for a dated review does not succeed, it has yielded false (it has not
\* thrown), and the call has written the review file with thumbnail null and
\* returned true.
C11_AsStated ==
    \A i \in 1..Len(saveLog) :
        (/\ saveLog[i].review.date.valid
         /\ saveLog[i].acquired \in {"false", "threw"})
        => /\ saveLog[i].acquired = "false"
           /\ saveLog[i].outcome = "saved"
           /\ saveLog[i].filesChanged
           /\ saveLog[i].thumbnail = Null

(***************************************************************************)
(* Properties of the API client (ApiSpec).                                 *)
(***************************************************************************)
\* a DNS-resolution error as the claim words it
ClaimDnsError(err) ==
    \/ err.code = "EAI_AGAIN"
    \/ \E k \in 1..Len(err.message) : err.message[k] = "EAI_AGAIN"

\* C12: one request makes exactly one primary attempt and at most one curl
\* attempt; curl is used exactly when the primary transport failed with a
\* DNS-resolution error (code EAI_AGAIN, or EAI_AGAIN in the message); any
\* other failure of the primary transport is rethrown unchanged, and a
\* failure of curl is thrown without another attempt.
C12_FallbackOnlyOnDns ==
    \A k \in 1..Len(apiLog) :
        LET call == apiLog[k]
        IN  /\ call.primary = 1
            /\ call.fallback \in {0, 1}
            /\ call.fallback = 1 <=>
                  (call.https.rejected /\ ClaimDnsError(call.https.error))
            /\ (call.https.rejected /\ ~ClaimDnsError(call.https.error)) =>
                  call.threw /\ call.error = call.https.error
            /\ (call.fallback = 1 /\ call.curl.rejected) =>
                  call.threw /\ call.error = CurlFailed

\* one request answered by curl after a DNS failure known by its message
\* only, and one whose refused connection was rethrown
C12_Witness ==
    /\ Len(apiLog) = 2
    /\ apiLog[1].https.error.code = Null
    /\ apiLog[1].fallback = 1
    /\ ~apiLog[1].threw
    /\ apiLog[1].results = <<"item">>
    /\ apiLog[2].https.error.code = "ECONNREFUSED"
    /\ apiLog[2].fallback = 0
    /\ apiLog[2].threw
    /\ apiLog[2].error.message = <<"Connection", "refused">>

(***************************************************************************)
(* Properties of the response validation in a platform run (Spec).         *)
(***************************************************************************)
ClaimNonArrayKinds == {"object", "string", "number", "null"}

\* C13: the parsed response reaches the filters and the store only when its
\* top-level value is an array; a parsed value of any other kind makes
\* fetchApiArray throw, and the run is aborted: it exits with code 1, no
\* review is saved for that business and the configuration is not written.
C13_NonArrayAborts ==
    /\ (runLog.order # <<>> /\ runLog.status[RunCurrent] \in {"SAVING", "DONE"})
          => runLog.response = "array"
    /\ runLog.response \in ClaimNonArrayKinds =>
          /\ runLog.threw
          /\ pc = "exited"
          /\ exitCode = 1
          /\ runLog.status[RunCurrent] = "FETCHING"
          /\ runLog.fetched = <<>>
          /\ runLog.handed = <<>>
          /\ reviewFiles[config[RunCurrent].slug] =
                 runLog.filesAtStart[config[RunCurrent].slug]
          /\ runLog.writes = 0
          /\ configDisk = runLog.configAtStart

\* the second business was answered with an object, after the first one had
\* been fetched, stored and stamped
C13_Witness ==
    /\ runLog.response = "object"
    /\ runLog.order = <<1, 2>>
    /\ runLog.status[1] = "DONE"
    /\ reviewFiles[config[1].slug] # <<>>
    /\ pc = "exited"

(***************************************************************************)
(* Properties of getLatestReviewDate (LatestSpec).                         *)
(***************************************************************************)
\* the .json files of the directory that are readable review files with a
\* date new Date() accepts: a string that parses, or null (read as the epoch)
ClaimDatedFiles ==
    {f \in DOMAIN reviewFiles["b1"] :
        /\ f[Len(f)] = ".json"
        /\ reviewFiles["b1"][f].json = "object"
        /\ reviewFiles["b1"][f].date.kind \in {"iso", "null"}}

ClaimMaxDay ==
    CHOOSE day \in 0..31 :
        /\ \E f \in ClaimDatedFiles :
              reviewFiles["b1"][f].date.t \div MsPerDay = day
        /\ \A f \in ClaimDatedFiles :
              reviewFiles["b1"][f].date.t \div MsPerDay <= day

\* C14, as stated: getLatestReviewDate returns null when the directory is
\* missing or holds no review file with a valid date, and otherwise the day
\* after the latest review date, as a YYYY-MM-DD string, whatever other
\* files the directory holds.
C14_AsStated ==
    latest.called =>
        IF ~latest.dirExists \/ ClaimDatedFiles = {}
        THEN latest.value = Null
        ELSE latest.value = "1970-01-" \o TwoDigits[ClaimMaxDay + 2]

(***************************************************************************)
(* Properties of the platform normalizers (NormSpec).                      *)
(***************************************************************************)
\* a field of the raw record that is missing or null
ClaimAbsent(v) == v.t \in {"undefined", "null"}

ClaimEmptyString == JsString(<<>>)

\* the documented defaults of the fields that are absent from the raw record
ClaimGoogleDefaults(raw, review) ==
    /\ (ClaimAbsent(raw.text) /\ ClaimAbsent(raw.reviewText))
           => review.content = ClaimEmptyString
    /\ (ClaimAbsent(raw.stars) /\ ClaimAbsent(raw.rating))
           => review.rating = JsNumber(0)
    /\ (ClaimAbsent(raw.name) /\ ClaimAbsent(raw.authorName))
           => review.author = JsString(AnonymousName)
    /\ (ClaimAbsent(raw.reviewerUrl) /\ ClaimAbsent(raw.authorUrl))
           => /\ review.authorUrl = ClaimEmptyString
              /\ review.userId = JsNull
    /\ (/\ ClaimAbsent(raw.reviewerPhotoUrl)
        /\ ClaimAbsent(raw.userPhotoUrl)
        /\ ClaimAbsent(raw.reviewerAvatar))
           => review.photoUrl = ClaimEmptyString

ClaimFacebookDefaults(raw, review) ==
    /\ ClaimAbsent(raw.text) => review.content = ClaimEmptyString
    /\ (ClaimAbsent(raw.user) \/ ClaimAbsent(raw.user.name))
           => review.author = JsString(AnonymousName)
    /\ (/\ ClaimAbsent(raw.url)
        /\ ClaimAbsent(raw.user) \/ ClaimAbsent(raw.user.profileUrl))
           => review.authorUrl = ClaimEmptyString
    /\ (ClaimAbsent(raw.user) \/ ClaimAbsent(raw.user.profilePic))
           => review.photoUrl = ClaimEmptyString
    /\ (ClaimAbsent(raw.user) \/ ClaimAbsent(raw.user.id))
           => review.userId = JsNull

ClaimTrustpilotDefaults(raw, review) ==
    /\ (ClaimAbsent(raw.reviewTitle) /\ ClaimAbsent(raw.reviewText))
           => review.content = ClaimEmptyString
    /\ ClaimAbsent(raw.ratingValue) => review.rating = JsNumber(0)
    /\ ClaimAbsent(raw.name) => review.author = JsString(AnonymousName)
    /\ ClaimAbsent(raw.url) => review.authorUrl = ClaimEmptyString
    /\ ClaimAbsent(raw.avatar) => review.photoUrl = ClaimEmptyString
    /\ ClaimAbsent(raw.reviewId) => review.userId = JsNull

ClaimDefaults ==
    CASE norm.platform = "google" ->
            ClaimGoogleDefaults(norm.raw, norm.review)
      [] norm.platform = "facebook" ->
            ClaimFacebookDefaults(norm.raw, norm.review)
      [] OTHER -> ClaimTrustpilotDefaults(norm.raw, norm.review)

\* C15, as stated: every normalizer is total: for every raw record, with
\* missing, null or unexpectedly typed fields, it returns a review and does
\* not throw, the absent fields being replaced by the documented defaults
\* (content "", rating 0 for Google and Trustpilot, author "Anonymous",
\* authorUrl "", photoUrl "", userId null).
C15_AsStated ==
    norm.called => (~norm.threw /\ ClaimDefaults)

\* C16, as stated: for every raw Google, Facebook or Trustpilot record the
\* normalized rating is an integer in 0..5.
C16_AsStated ==
    (norm.called /\ ~norm.threw)
        => /\ norm.review.rating.t = "number"
           /\ norm.review.rating.n \in 0..5

\* the title and the body of a Trustpilot record as texts, absent ones empty
ClaimTitleText ==
    IF ToBoolean(norm.raw.reviewTitle) THEN trim(norm.raw.reviewTitle.s)
    ELSE <<>>
ClaimBodyText ==
    IF ToBoolean(norm.raw.reviewText) THEN norm.raw.reviewText.s ELSE <<>>

\* a title cut short with an ellipsis: three periods or the ellipsis
\* character, in either of the forms the record or the source may hold it
ClaimEllipsisEndings ==
    EllipsisEndings \cup {<<"U+2026">>, <<"U+2026", ".">>}

\* the body begins with the title, case-insensitively, or with the prefix of
\* a title that was cut short with an ellipsis
ClaimBodyBeginsWithTitle ==
    \/ startsWith(lowerString(ClaimBodyText), lowerString(ClaimTitleText))
    \/ \E k \in 1..Len(ClaimTitleText) :
          /\ SubSeq(ClaimTitleText, k + 1, Len(ClaimTitleText))
                 \in ClaimEllipsisEndings
          /\ startsWith(lowerString(ClaimBodyText),
                        lowerString(trim(SubSeq(ClaimTitleText, 1, k))))

ClaimPunctuatedTitle ==
    IF ClaimTitleText[Len(ClaimTitleText)] \in SentencePunctuation
    THEN ClaimTitleText
    ELSE ClaimTitleText \o <<".">>

ClaimTrustpilotContent ==
    IF ~ToBoolean(norm.raw.reviewTitle) THEN ClaimBodyText
    ELSE IF ClaimBodyBeginsWithTitle THEN ClaimBodyText
    ELSE ClaimPunctuatedTitle \o <<"\n", "\n">> \o ClaimBodyText

\* the records whose title and body are texts or absent
ClaimTextRecord ==
    /\ norm.platform = "trustpilot"
    /\ norm.raw.reviewTitle.t \in {"undefined", "null", "string"}
    /\ norm.raw.reviewText.t \in {"undefined", "null", "string"}

\* C17, as stated: the Trustpilot content is the body when there is no
\* title or when the body already begins with the title (case-insensitively,
\* or with the prefix of an ellipsis-truncated title); otherwise the title,
\* with a period added when it lacks terminal punctuation, a blank line and
\* the body; and the result is trimmed.
C17_AsStated ==
    (norm.called /\ ClaimTextRecord)
        => /\ ~norm.threw
           /\ norm.review.content = JsString(trim(ClaimTrustpilotContent))

(***************************************************************************)
(* Properties of the start of a platform run (Spec).                       *)
(***************************************************************************)
\* C18: a run started without the API token has exited with a non-zero code
\* and has done no work: the configuration was not loaded and is not
\* written, no business was examined or fetched, and no review file or
\* thumbnail file was created.
C18_NoTokenNoWork ==
    (pc # "idle" /\ ~token) =>
        /\ pc = "exited"
        /\ exitCode > 0
        /\ config = <<>>
        /\ selected = <<>>
        /\ runLog.writes = 0
        /\ configDisk = runLog.configAtStart
        /\ runLog.order = <<>>
        /\ \A i \in RunBusinesses :
              runLog.status[i] = "PENDING" /\ runLog.due[i] = "unchecked"
        /\ saveLog = <<>>
        /\ reviewFiles = runLog.filesAtStart
        /\ imageFiles = {}
        /\ imageRequests = 0
        /\ imageWrites = 0

\* a run without the token has ended although the configuration on disk
\* holds a business of the platform that is due for fetching
C18_Witness ==
    /\ pc = "exited"
    /\ ~token
    /\ \E i \in 1..Len(configDisk) :
          /\ selectBusinesses(configDisk, 1, platform, slugArg) # <<>>
          /\ i \in Range(selectBusinesses(configDisk, 1, platform, slugArg))
          /\ shouldFetch(configDisk[i], platform, now, tz)

(***************************************************************************)
(* Properties of the thumbnail of a stored review (StoreSpec).             *)
(***************************************************************************)
\* the thumbnail path of a reviewer
ClaimThumbnailPath(userId) == "/images/reviewers/" \o userId \o ".webp"

\* call i saves a review of a reviewer both of whose thumbnail files an
\* earlier call j found or left on disk
ClaimLaterSameReviewer(j, i) ==
    /\ j < i
    /\ Truthy(saveLog[j].review.userId)
    /\ saveLog[i].review.userId = saveLog[j].review.userId
    /\ saveLog[j].imagesPresent
    /\ saveLog[i].outcome = "saved"

\* C19, as stated: once both thumbnail files of a userId have been written,
\* saving any later review with the same userId issues no image request and
\* records the same thumbnail path.
C19_AsStated ==
    \A i, j \in 1..Len(saveLog) :
        ClaimLaterSameReviewer(j, i)
            => /\ saveLog[i].requests = 0
               /\ saveLog[i].thumbnail =
                      ClaimThumbnailPath(saveLog[i].review.userId)

\* C19: once both thumbnail files of a userId are on disk, saving a later
\* review with the same userId, in any directory, issues no image request
\* and writes no image file; the review records the thumbnail path of the
\* userId when it has a photoUrl (whatever the url is), and null when its
\* photoUrl is empty.
C19_ThumbnailPerReviewer ==
    \A i, j \in 1..Len(saveLog) :
        ClaimLaterSameReviewer(j, i)
            => /\ saveLog[i].requests = 0
               /\ ~saveLog[i].imagesChanged
               /\ saveLog[i].thumbnail =
                      IF Truthy(saveLog[i].review.photoUrl)
                      THEN ClaimThumbnailPath(saveLog[i].review.userId)
                      ELSE Null

\* a download wrote the thumbnail files of a reviewer, and a different
\* review of the same reviewer was then saved in another directory with the
\* thumbnail path
C19_Witness ==
    \E i, j \in 1..Len(saveLog) :
        /\ ClaimLaterSameReviewer(j, i)
        /\ saveLog[j].requests = 1
        /\ saveLog[j].imagesChanged
        /\ saveLog[i].review # saveLog[j].review
        /\ saveLog[i].dir # saveLog[j].dir
        /\ saveLog[i].thumbnail = ClaimThumbnailPath(saveLog[i].review.userId)

\* C20: a review file is written with a non-null thumbnail only when the
\* acquisition succeeded: both image files of its userId are then on disk and
\* the thumbnail is the path of that userId; a review without userId or
\* without photoUrl, or one whose acquisition returned false, is written with
\* thumbnail null.
C20_ThumbnailOnlyIfAcquired ==
    \A i \in 1..Len(saveLog) :
        saveLog[i].outcome = "saved"
            => /\ saveLog[i].thumbnail # Null
                      => /\ saveLog[i].acquired = "true"
                         /\ saveLog[i].imagesPresent
                         /\ saveLog[i].thumbnail =
                                ClaimThumbnailPath(saveLog[i].review.userId)
               /\ (\/ ~Truthy(saveLog[i].review.userId)
                   \/ ~Truthy(saveLog[i].review.photoUrl)
                   \/ saveLog[i].acquired = "false")
                      => saveLog[i].thumbnail = Null

\* a review was written with thumbnail null after a download that left only
\* one of the two image files, and a review with a thumbnail after a
\* download that wrote both
C20_Witness ==
    \E i, j \in 1..Len(saveLog) :
        /\ saveLog[j].outcome = "saved"
        /\ saveLog[j].network = "partial"
        /\ saveLog[j].requests = 1
        /\ saveLog[j].imagesChanged
        /\ saveLog[j].thumbnail = Null
        /\ saveLog[i].outcome = "saved"
        /\ saveLog[i].requests = 1
        /\ saveLog[i].thumbnail # Null

(***************************************************************************)
(* Properties of buildTrustpilotContent as its tests word them (NormSpec). *)
(***************************************************************************)
\* a Trustpilot record with a title that needs no trimming and that the
\* body does not repeat
ClaimPlainTitle ==
    /\ norm.platform = "trustpilot"
    /\ norm.raw.reviewTitle.t = "string"
    /\ norm.raw.reviewTitle.s # <<>>
    /\ norm.raw.reviewTitle.s = trim(norm.raw.reviewTitle.s)
    /\ norm.raw.reviewText.t \in {"undefined", "null", "string"}
    /\ ~ClaimBodyBeginsWithTitle

\* C27, as stated: with a non-empty title and an empty or null body the
\* content is the title itself, unchanged; with a title and a body it is the
\* title unchanged, a blank line, then the body.
C27_AsStated ==
    (norm.called /\ ClaimPlainTitle)
        => /\ ~norm.threw
           /\ norm.review.content =
                 IF ClaimBodyText = <<>>
                 THEN JsString(norm.raw.reviewTitle.s)
                 ELSE JsString(norm.raw.reviewTitle.s \o <<"\n", "\n">>
                               \o ClaimBodyText)

(***************************************************************************)
(* Properties of the preconditions of downloadAndProcessImage (ThumbSpec). *)
(***************************************************************************)
ClaimEmptyInput(call) ==
    call.url \in {Null, ""} \/ call.userId \in {Null, ""}

ClaimUnparseable(call) ==
    ~ClaimEmptyInput(call) /\ parseUrlSafe(call.url) = Null

ClaimFalseNoRequest(call) ==
    /\ ~call.result
    /\ ~call.threw
    /\ call.requests = 0
    /\ call.writes = 0
    /\ ~call.imagesChanged

\* C21, as stated: a call whose url or userId is empty, or whose url does not
\* parse, returns false without a request, whatever files exist.
C21_AsStated ==
    \A k \in 1..Len(imageLog) :
        (ClaimEmptyInput(imageLog[k]) \/ ClaimUnparseable(imageLog[k]))
            => ClaimFalseNoRequest(imageLog[k])

\* C21: a call whose url or userId is empty returns false without a request,
\* whatever files exist; a call with a userId and a url that does not parse
\* issues no request either, and returns false unless both files of the
\* userId already exist, in which case it returns true.
C21_PreconditionShortCircuit ==
    \A k \in 1..Len(imageLog) :
        /\ ClaimEmptyInput(imageLog[k]) => ClaimFalseNoRequest(imageLog[k])
        /\ ClaimUnparseable(imageLog[k])
              => IF imageLog[k].had1x /\ imageLog[k].had2x
                 THEN ClaimNoWork(imageLog[k])
                 ELSE ClaimFalseNoRequest(imageLog[k])

\* with both files of u1 on disk, a call with an empty url returned false; and
\* a call for u2, which has no files, with a url that does not parse returned
\* false
C21_Witness ==
    \E i, j \in 1..Len(imageLog) :
        /\ imageLog[i].userId = "u1"
        /\ imageLog[i].had1x /\ imageLog[i].had2x
        /\ imageLog[i].url = ""
        /\ ~imageLog[i].result
        /\ imageLog[j].userId = "u2"
        /\ ~imageLog[j].had1x /\ ~imageLog[j].had2x
        /\ imageLog[j].url = "not a url"
        /\ ~imageLog[j].result

(***************************************************************************)
(* Properties of the primary API transport (ApiSpec).                      *)
(***************************************************************************)
\* the calls in which the server answered
ClaimAnswered == {i \in 1..Len(apiLog) : apiLog[i].https.status # 0}

\* the error names the status and holds the body
ClaimEmbedsStatus(outcome) ==
    \E body \in ApiBodies :
        outcome.error.message =
            <<"HTTP">> \o decimal(outcome.status) \o <<":">> \o bodyText(body)

\* C25, as stated: the primary transport rejects, with an error embedding the
\* status code and the body, for every status that is not 2xx, and resolves
\* with the body only for a 2xx status.
C25_AsStated ==
    \A i \in ClaimAnswered :
        LET outcome == apiLog[i].https
        IN  /\ outcome.status \notin 200..299
                  => outcome.rejected /\ ClaimEmbedsStatus(outcome)
            /\ ~outcome.rejected => outcome.status \in 200..299

(***************************************************************************)
(* Frame of a platform run on the business records (Spec).                 *)
(***************************************************************************)
\* the fields of business i, in memory and on disk, other than the
\* timestamp of the platform of the run, are those the run loaded
ClaimOtherFieldsKept(i) ==
    \A list \in {config, configDisk} :
        \A field \in DOMAIN list[i] \ {timestampField(platform)} :
            list[i][field] = runLog.configAtStart[i][field]

\* the fetch-due decision of every other platform on business i is the one
\* the loaded record gives
ClaimOtherDecisionsKept(i) ==
    \A list \in {config, configDisk} :
        \A other \in Platforms \ {platform} :
            shouldFetch(list[i], other, now, tz)
                = shouldFetch(runLog.configAtStart[i], other, now, tz)

\* C29: a run for a platform changes, on a business it fetches, only the
\* timestamp field of that platform, and no field of a business it does not
\* fetch; the generic timestamp, the timestamps of the other platforms and
\* every other field stay as loaded, and so does the fetch-due decision of
\* every other platform.
C29_OnlyPlatformTimestamp ==
    config # <<>>
        => \A i \in 1..Len(config) :
               /\ ClaimOtherFieldsKept(i)
               /\ ClaimOtherDecisionsKept(i)
               /\ runLog.stamped[i] = -1 => config[i] = runLog.configAtStart[i]
               /\ runLog.stamped[i] # -1
                     => config[i][timestampField(platform)]
                            = FormatTimestamp(runLog.stamped[i])

\* a finished run stamped and persisted a business that is on both
\* platforms and had a timestamp of the other platform only
C29_Witness ==
    /\ pc = "done"
    /\ \E i \in 1..Len(configDisk) :
          /\ runLog.stamped[i] # -1
          /\ configDisk[i].google_business_id # ""
          /\ configDisk[i].facebook_page_url # ""
          /\ configDisk[i][timestampField(platform)]
                 # runLog.configAtStart[i][timestampField(platform)]
          /\ \E other \in Platforms \ {platform} :
                shouldFetch(configDisk[i], other, now, tz)

(***************************************************************************)
(* Properties of the request of a business (RequestSpec).                  *)
(***************************************************************************)
\* the count the configuration asks for
ClaimConfiguredCount(business) ==
    IF business.number_of_reviews = -1
    THEN ConfigMaxReviews
    ELSE business.number_of_reviews

\* C26, as stated: only the Google request carries a start date, the day
\* after the latest stored review date when the directory of the business
\* holds a dated review and none otherwise; the Facebook and Trustpilot
\* requests carry no start date and ask for number_of_reviews, or for the
\* global maximum when that is -1.
C26_AsStated ==
    \A i \in 1..Len(apiLog) :
        IF apiLog[i].source = "google"
        THEN apiLog[i].data.reviewsStartDate =
                 IF ClaimDatedFiles = {}
                 THEN NoKey
                 ELSE "1970-01-" \o TwoDigits[ClaimMaxDay + 2]
        ELSE /\ apiLog[i].data.reviewsStartDate = NoKey
             /\ apiLog[i].data.maxReviews = ClaimConfiguredCount(sfBusiness)

(***************************************************************************)
(* Properties of one image acquisition (AcquireSpec).                      *)
(***************************************************************************)
\* the hops whose request was answered, and those answered by a redirect
ClaimResponded == {h \in 1..Len(acq) : acq[h].status # 0}

ClaimRedirected == {h \in 1..Len(acq) : acq[h].phase = "redirected"}

\* the body of the response of hop h was, or is being, collected
ClaimCollected(h) ==
    acq[h].phase \in {"receiving", "processing", "done", "aborted", "errored"}

\* hop h was refused on its status: false, by the response handler
ClaimRefused(h) ==
    /\ acq[h].phase = "answered"
    /\ acq[h].settled
    /\ ~acq[h].value
    /\ acq[h].by = "response"

\* C22, as stated: every 2xx response is collected and processed, and every
\* other status that is no redirect is refused.
C22_AsStated ==
    \A h \in ClaimResponded \ ClaimRedirected :
        IF acq[h].status \in 200..299
        THEN ClaimCollected(h)
        ELSE ClaimRefused(h)

\* C22: a response with status 200 is collected and, once its body is
\* complete, processed: the promise is settled by the processing, with true
\* exactly when both sizes are on disk. Every other status that is no
\* redirect with a Location header, the other 2xx statuses and a 3xx without
\* Location included, is refused with false, and image files are written
\* only by a hop answered with 200 or by the curl fallback.
C22_OnlyStatus200 ==
    /\ \A h \in ClaimResponded \ ClaimRedirected :
          IF acq[h].status = 200 THEN ClaimCollected(h) ELSE ClaimRefused(h)
    /\ \A h \in 1..Len(acq) :
          acq[h].phase = "done"
              => /\ acq[h].status = 200
                 /\ acq[h].settled
                 /\ acq[h].by = "response"
                 /\ acq[h].value = imageFilesExist(getImagePaths(AcqUserId),
                                                   imageFiles)
    /\ imageWrites > 0
          => \E h \in 1..Len(acq) :
                \/ acq[h].phase = "done"
                \/ acq[h].curl \in {"ok", "partial"}

\* after a redirect the server answers 204: refused, nothing written, and
\* the call returns false
C22_Witness ==
    /\ Len(acq) = 2
    /\ acq[1].phase = "redirected"
    /\ acq[2].status = 204
    /\ ClaimRefused(2)
    /\ acq[1].settled /\ ~acq[1].value
    /\ imageWrites = 0

\* the hops whose request emitted "error"
ClaimFailed == {h \in 1..Len(acq) : acq[h].error # NoError}

\* the error is a DNS error: EAI_AGAIN as its code or inside its message
ClaimDnsFailure(h) == ClaimDnsError(acq[h].error)

\* C24: on an error of the request the curl fallback is invoked exactly when
\* the error is a DNS error, and the promise is then settled with the result
\* of the fallback (true exactly when it wrote both sizes); on every other
\* error the fallback is not invoked and the call yields false.
C24_FallbackOnDnsOnly ==
    \A h \in ClaimFailed :
        /\ acq[h].settled
        /\ IF ClaimDnsFailure(h)
           THEN /\ acq[h].curl # "none"
                /\ acq[h].by = "error"
                /\ acq[h].value = (acq[h].curl = "ok")
                /\ acq[h].value
                      => imageFilesExist(getImagePaths(AcqUserId), imageFiles)
           ELSE /\ acq[h].curl = "none"
                /\ ~acq[h].value
                /\ acq[h].by \in {"error", "timeout"}

\* after a redirect the lookup of the target fails with EAI_AGAIN in the
\* message only; curl fetches the image and the call returns true
C24_Witness ==
    /\ Len(acq) = 2
    /\ acq[2].error = ApiError(Null, <<"getaddrinfo", "EAI_AGAIN", "img">>)
    /\ acq[2].curl = "ok"
    /\ acq[2].value
    /\ acq[1].settled /\ acq[1].value /\ acq[1].by = "nested"
    /\ imageWrites = 2

\* the promise of hop h keeps what it holds
ClaimPromiseKept(h) ==
    acq[h].settled
        => /\ acq'[h].settled
           /\ acq'[h].value = acq[h].value
           /\ acq'[h].by = acq[h].by

\* the timer of hop h fired before any response to its request
ClaimTimedOutFirst(hop) == hop.timer = "fired" /\ hop.status = 0

\* C28: whatever the order of the response, the error and the timeout of a
\* request, the promise of the call is settled by the first resolve call and
\* no later event changes its value; a timeout before any response settles
\* it with false.
C28_FirstResolveWins ==
    [][/\ \A h \in 1..Len(acq) : ClaimPromiseKept(h)
       /\ \A h \in 1..Len(acq') :
             ClaimTimedOutFirst(acq'[h])
                 => /\ acq'[h].settled
                    /\ ~acq'[h].value
                    /\ acq'[h].by = "timeout"]_vars

\* the timer of the redirected request fired while the target was being
\* fetched; the target then answered 200 and both sizes were written: the
\* call had returned false and still holds false after the second resolve
C28_Witness ==
    /\ Len(acq) = 2
    /\ acq[1].phase = "redirected"
    /\ acq[1].timer = "fired"
    /\ acq[1].by = "timeout"
    /\ ~acq[1].value
    /\ acq[1].calls = 2
    /\ acq[2].phase = "done"
    /\ acq[2].value
    /\ imageWrites = 2

\* requests that went to the network in the chain
ClaimRequests ==
    Cardinality({h \in 1..Len(acq) :
                    acq[h].phase \notin {"checking", "skipped", "threw"}})

\* what the promise of hop h holds
ClaimResult(h) ==
    CASE acq[h].settled -> IF acq[h].value THEN "true" ELSE "false"
      [] acq[h].phase = "threw" -> "rejected"
      [] OTHER -> "pending"

\* C23, as stated: a redirected call made the nested call on the Location
\* with the same userId and its result is the result of the nested call:
\* its promise holds what the promise of the nested call holds; every
\* redirect followed costs one request more, so a chain of n redirects
\* ending in a 200 issued n + 1 requests, for every n the bound on the chain
\* allows.
C23_AsStated ==
    /\ \A h \in ClaimRedirected :
          /\ h + 1 \in 1..Len(acq)
          /\ ClaimResult(h) = ClaimResult(h + 1)
    /\ imageRequests = ClaimRequests
    /\ (acq # AcqIdle /\ acq[Len(acq)].status = 200)
          => imageRequests = Len(acq)

(***************************************************************************)
(* Properties of a run that follows an aborted run (RerunSpec).            *)
(***************************************************************************)
\* every review file on disk stays, with its content
ClaimFilesKept ==
    \A d \in Slugs :
        \A f \in DOMAIN reviewFiles[d] :
            /\ f \in DOMAIN reviewFiles'[d]
            /\ reviewFiles'[d][f] = reviewFiles[d][f]

\* the files of directory d that the step creates
ClaimCreated(d) == DOMAIN reviewFiles'[d] \ DOMAIN reviewFiles[d]

\* a step creates at most the file of the review in hand, in the directory
\* of the business in hand, and only when its name was not present
ClaimOnlyMissingWritten ==
    \A d \in Slugs :
        ClaimCreated(d) # {}
            => /\ pc = "saving"
               /\ queue # <<>>
               /\ d = config[selected[idx]].slug
               /\ ClaimCreated(d) =
                      {formatFilename(Head(queue).author, Head(queue).date,
                                      now)}

\* the run that follows an aborted run loads the configuration the aborted
\* run loaded, and finds due every business the aborted run found due
ClaimDueAgain(log) ==
    "previous" \in DOMAIN log
        => /\ log.configAtStart = log.previous.configAtStart
           /\ \A b \in 1..Len(log.due) :
                 log.previous.due[b] = "true"
                     => log.due[b] \in {"unchecked", "true"}

\* C30: the review files written before a run aborted stay on disk, while the
\* configuration on disk is still the one the run loaded; the next run finds
\* the same businesses due, and no step of either run removes or changes a
\* review file: a step creates only the file of the review in hand, and only
\* when no file of that name is present.
C30_RerunKeepsFiles ==
    [][/\ ClaimFilesKept
       /\ ClaimOnlyMissingWritten
       /\ (pc' = "exited" /\ runLog'.threw)
             => configDisk' = runLog'.configAtStart
       /\ ClaimDueAgain(runLog')]_vars

\* the first run wrote files for one business, finished it, and aborted
\* while saving for the next; the second run is handed a review whose file
\* the first run wrote, and has written a file of its own
C30_Witness ==
    /\ "previous" \in DOMAIN runLog
    /\ \E b \in 1..Len(runLog.status) : runLog.previous.status[b] = "DONE"
    /\ \E b \in 1..Len(runLog.status) : runLog.previous.status[b] = "SAVING"
    /\ runLog.previous.filesAtStart # runLog.filesAtStart
    /\ reviewFiles # runLog.filesAtStart
    /\ pc = "saving"
    /\ \E i \in 1..Len(runLog.handed) :
          formatFilename(runLog.handed[i].author, runLog.handed[i].date, now)
              \in DOMAIN runLog.filesAtStart[config[RunCurrent].slug]

====
